---- MODULE Spec2Model ----
(***************************************************************************)
(* A model of doozer's `release:gen-assembly from-releases` command        *)
(* (GenAssemblyCli): the concurrent fetch of the release payloads, the     *)
(* estimate of the basis brew event, the image and RPM reconcilers and the *)
(* assembly definition they produce.                                       *)
(*                                                                         *)
(* Time is in whole seconds.  A build is named by its NVR.  The build      *)
(* system (Brew), the group metadata and the payload manifests are fixed   *)
(* tables or inputs drawn in Init; they do not change during a run.        *)
(*                                                                         *)
(* The module also models the helpers of elliott's ocp_cd_tools/common.py  *)
(* that threads share: the Dir context manager with exec_cmd and           *)
(* gather_exec (SpecDir), watch_task with get_watch_task_info_copy         *)
(* (SpecWatch), and the two retrying helpers retry (SpecRetry) and         *)
(* assert_exec (SpecAssertExec).                                           *)
(***************************************************************************)
EXTENDS Integers, Sequences, FiniteSets, TLC

\* The most component tags one release manifest holds in the model.
MaxTags == 2

None == "none"

Max(a, b) == IF a >= b THEN a ELSE b

\* runtime.group_config.arches
Arches == {"x86_64", "aarch64"}

\* rhcos.get_container_names(runtime); the first is the primary container.
RhcosTagNames == {"rhcos"}
PrimaryRhcosTag == "rhcos"

\* The safety margin added to a completion time: 60.0 * 5.
Margin == 300

(***************************************************************************)
(* The build system.  Image builds by NVR: package, completion time and    *)
(* the RPM builds installed in the image's archives.                       *)
(***************************************************************************)
ImageBuilds ==
     "x-1" :> [package_name |-> "x", completion_ts |-> 1600, rpms |-> {"x-1.el8", "p-2.el8"}]
  @@ "x-2" :> [package_name |-> "x", completion_ts |-> 1000, rpms |-> {"p-1.el8", "p-1.el9"}]
  @@ "x-3" :> [package_name |-> "x", completion_ts |-> 1200, rpms |-> {"p-2.el8", "t-1"}]
  @@ "y-1" :> [package_name |-> "y", completion_ts |-> 1000, rpms |-> {"p-1.el8"}]
  @@ "y-2" :> [package_name |-> "y", completion_ts |-> 1400, rpms |-> {"p-1.el9"}]
  @@ "u-1" :> [package_name |-> "u", completion_ts |-> 1000, rpms |-> {"r-1.el8"}]
  @@ "u-2" :> [package_name |-> "u", completion_ts |-> 1100, rpms |-> {}]
  @@ "b-1" :> [package_name |-> "b", completion_ts |-> 1000, rpms |-> {"q-1"}]
  @@ "b-2" :> [package_name |-> "b", completion_ts |-> 1100, rpms |-> {}]
  @@ "n-1" :> [package_name |-> "n", completion_ts |-> 900,  rpms |-> {}]
  @@ "n-2" :> [package_name |-> "n", completion_ts |-> 1100, rpms |-> {}]
  @@ "z-1" :> [package_name |-> "z", completion_ts |-> 800,  rpms |-> {}]

\* RPM builds by NVR.  el is the RHEL version isolate_el_version_in_release
\* finds in the release string; 0 stands for a release string without one.
RpmBuilds ==
     "p-1.el8" :> [package_name |-> "p", el |-> 8, completion_ts |-> 700]
  @@ "p-2.el8" :> [package_name |-> "p", el |-> 8, completion_ts |-> 750]
  @@ "p-1.el9" :> [package_name |-> "p", el |-> 9, completion_ts |-> 700]
  @@ "x-1.el8" :> [package_name |-> "x", el |-> 8, completion_ts |-> 700]
  @@ "x-2.el8" :> [package_name |-> "x", el |-> 8, completion_ts |-> 750]
  @@ "r-1.el8" :> [package_name |-> "r", el |-> 8, completion_ts |-> 1300]
  @@ "t-1"     :> [package_name |-> "t", el |-> 0, completion_ts |-> 700]
  @@ "q-1"     :> [package_name |-> "q", el |-> 0, completion_ts |-> 700]

\* The build system's event log: the timestamp of event 1, 2, ...
EventLog == <<850, 1250, 1450, 1650, 1850>>

(***************************************************************************)
(* The group metadata.  runtime.image_metas(), in order; the package "u"   *)
(* has builds but no image metadata in the group.                          *)
(***************************************************************************)
ImageMetas == <<
  [distgit_key |-> "x", base_only |-> FALSE, for_release |-> TRUE, is_payload |-> TRUE,
   payload_name |-> "x", explicit |-> TRUE],
  [distgit_key |-> "y", base_only |-> FALSE, for_release |-> TRUE, is_payload |-> TRUE,
   payload_name |-> "y", explicit |-> FALSE],
  [distgit_key |-> "n", base_only |-> FALSE, for_release |-> TRUE, is_payload |-> FALSE,
   payload_name |-> "n", explicit |-> FALSE],
  [distgit_key |-> "b", base_only |-> TRUE, for_release |-> TRUE, is_payload |-> FALSE,
   payload_name |-> "b", explicit |-> FALSE],
  [distgit_key |-> "z", base_only |-> FALSE, for_release |-> TRUE, is_payload |-> TRUE,
   payload_name |-> "z", explicit |-> FALSE] >>

HasImageMeta(package_name) ==
  \E i \in DOMAIN ImageMetas : ImageMetas[i].distgit_key = package_name

\* image_meta.get_component_name(): the model names a component by its package.
ImageMetaOf(package_name) ==
  CHOOSE m \in {ImageMetas[i] : i \in DOMAIN ImageMetas} : m.distgit_key = package_name

\* self.package_rpm_meta: the roster of the RPM packages the group builds.  The
\* RPM package "x" has the name of an image package; "t" is a third party's.
package_rpm_meta == {"p", "q", "r", "x"}

(***************************************************************************)
(* The payloads.  A manifest's component tags are drawn from TagUniverse,  *)
(* in its order; a tag is a name and the build its pullspec resolves to.   *)
(***************************************************************************)
TagUniverse == <<
  [name |-> "rhcos", build |-> None],
  [name |-> "x",     build |-> "x-2"],
  [name |-> "x",     build |-> "x-3"],
  [name |-> "xold",  build |-> "x-1"],
  [name |-> "y",     build |-> "y-1"],
  [name |-> "y",     build |-> "y-2"],
  [name |-> "u",     build |-> "u-1"],
  [name |-> "b",     build |-> "b-1"],
  [name |-> "n",     build |-> "n-1"] >>

\* displayVersions.machine-os.Version of a manifest; "" when it is missing.
MachineOsVersions == {"", "417.1", "417.2"}

RECURSIVE SubSeqOf(_, _)
\* The tags of TagUniverse at the indices I, from index i on, in order.
SubSeqOf(I, i) ==
  IF i > Len(TagUniverse) THEN <<>>
  ELSE IF i \in I THEN <<TagUniverse[i]>> \o SubSeqOf(I, i + 1)
  ELSE SubSeqOf(I, i + 1)

Manifests ==
  { [tags |-> SubSeqOf(I, 1), machine_os |-> v] :
      I \in {J \in SUBSET (DOMAIN TagUniverse) : Cardinality(J) <= MaxTags},
      v \in MachineOsVersions }


(***************************************************************************)
(* The state of a run: the inputs, the fields of GenAssemblyCli, the       *)
(* position of run() and of each _process_release task.                    *)
(***************************************************************************)
VARIABLES
  manifest,                \* input: arch -> the manifest `oc adm release info` returns
  custom,                  \* input: --custom
  pc,                      \* the position of run()
  task,                    \* arch -> position of its _process_release task: idle, fetching (at
                           \* the await), merging (in the tag loop), done, exited (lines 243-246)
  idx,                     \* arch -> index of the next tag its task's loop reads
  release_pullspecs,       \* the arches of self.release_pullspecs
  rhcos_by_tag,            \* tag name -> arch -> pullspec
  component_image_builds,  \* package name -> NVR of the image build
  component_rpm_builds,    \* package name -> el version -> NVR of the RPM build
  basis_event,
  basis_event_ts,
  force_is,
  rhcos_version,
  assembly_def,            \* what run() returned, None before
  payload_builds,          \* history: component_image_builds as the gather left it
  failed_at                \* history: the position of run() when the process exited

vars == <<manifest, custom, pc, task, idx, release_pullspecs, rhcos_by_tag,
          component_image_builds, component_rpm_builds, basis_event, basis_event_ts,
          force_is, rhcos_version, assembly_def, payload_builds, failed_at>>

(***************************************************************************)
(* The state of common.py's Dir: the process, and each thread that uses    *)
(* Dir, exec_cmd and gather_exec.                                          *)
(***************************************************************************)
VARIABLES
  os_cwd,                  \* the working directory of the process (os.getcwd())
  tl_cwd,                  \* thread -> Dir._tl.cwd, None while the attribute is not set
  dirs,                    \* thread -> the Dir objects of the `with` blocks it is in,
                           \* innermost last: dir, previousDir (and history: the process
                           \* directory and Dir.getcwd() when __enter__ was called)
  thread_pc,               \* thread -> its position: body, enter_chdir, enter_tl, exit_tl
  raising,                 \* thread -> an exception is leaving its `with` blocks
  popen,                   \* history: the subprocess the last step started, if it did
  restored                 \* history: the `with` block the last step left, if it did

dir_vars == <<os_cwd, tl_cwd, dirs, thread_pc, raising, popen, restored>>

(***************************************************************************)
(* The state of common.py's watch_task: Brew, the clock, the threads that  *)
(* watch one task each and the thread that asks for copies.                *)
(***************************************************************************)
VARIABLES
  brew_state,              \* task id -> the state of the task in Brew
  terminate_event,         \* the threading.Event given to every watch_task: is it set
  now,                     \* time.time(), in seconds from the start of the model's run
  watch_pc,                \* task id -> the position of its watch_task: idle, update, lock,
                           \* store, check, wait, cancel, returned, raised
  end_ts,                  \* task id -> the local `end`
  watcher_info,            \* task id -> watcher.info, as its 'state' entry
  watch_error,             \* task id -> the local `error`
  watch_ret,               \* task id -> the value watch_task returned
  cancels,                 \* history: task id -> the `brew cancel` commands issued for it
  info_dicts,              \* task id -> the dicts made by dict(watcher.info), as they are now
  watch_task_info,         \* task id -> which of its dicts the module's dict refers to
  watch_task_lock,         \* the holder of the lock, or None
  reader_pc,               \* the position of the thread in get_watch_task_info_copy
  copies                   \* the dicts get_watch_task_info_copy returned (and history: the
                           \* infos they held when they were returned)

watch_vars == <<brew_state, terminate_event, now, watch_pc, end_ts, watcher_info, watch_error,
                watch_ret, cancels, info_dicts, watch_task_info, watch_task_lock, reader_pc,
                copies>>

(***************************************************************************)
(* The state of one call of common.py's retry and of one call of its       *)
(* assert_exec.                                                            *)
(***************************************************************************)
VARIABLES
  retry_n,                 \* retry: the argument n
  check_f,                 \* retry: the argument check_f, as the results it accepts
  wait_f,                  \* retry: is the argument wait_f given (not None)
  retry_c,                 \* retry: the loop variable c
  retry_pc,                \* retry: idle, loop, wait, returned, raised
  retry_ret,               \* retry: the value returned
  f_calls,                 \* history: the results of the calls of f, in order
  wait_calls,              \* history: the arguments of the calls of wait_f, in order
  retries,                 \* assert_exec: the argument retries
  attempt,                 \* assert_exec: the loop variable t
  exec_rc,                 \* assert_exec: the local rc
  exec_pc,                 \* assert_exec: idle, loop, assert, returned, raised
  remove_tmp_working_dir,  \* assert_exec: runtime.remove_tmp_working_dir
  exec_rcs,                \* history: the exit statuses of the invocations of cmd, in order
  sleeps                   \* history: the calls of time.sleep(60)

retry_vars == <<retry_n, check_f, wait_f, retry_c, retry_pc, retry_ret, f_calls, wait_calls>>

exec_vars == <<retries, attempt, exec_rc, exec_pc, remove_tmp_working_dir, exec_rcs, sleeps>>

\* The state of common.py, which no step of GenAssemblyCli changes.
tools == <<dir_vars, watch_vars, retry_vars, exec_vars>>

all_vars == <<vars, tools>>

EmptyMap == [k \in {} |-> None]

\* The threads of the process that use Dir.
Threads == {"t1", "t2"}

\* Directories, as absolute paths: the one the process starts in, and those
\* the threads give to Dir.
StartDir == "/work"
Paths == {"/a", "/b"}

\* The deepest nesting of `with Dir(...)` blocks of one thread in the model.
MaxDepth == 2

\* The Brew tasks watched, one watch_task thread each (a thread is named by
\* its task), and the thread that calls get_watch_task_info_copy.
TaskIds == {"task1", "task2"}
Reader == "reader"

\* 4 * 60 * 60: the seconds watch_task gives a task.
WatchLimit == 14400

\* The instants at which the model's clock is read.
Instants == {0, 14400, 14401}

\* The most updates one watcher makes, and the most copies asked for, in the model.
MaxUpdates == 2
MaxCopies == 1

\* The module is loaded, no task is watched.
WatchLoaded ==
  /\ brew_state = [i \in TaskIds |-> "OPEN"]
  /\ terminate_event = FALSE
  /\ now = 0
  /\ watch_pc = [i \in TaskIds |-> "idle"]
  /\ end_ts = [i \in TaskIds |-> 0]
  /\ watcher_info = [i \in TaskIds |-> None]
  /\ watch_error = [i \in TaskIds |-> None]
  /\ watch_ret = [i \in TaskIds |-> "unset"]
  /\ cancels = [i \in TaskIds |-> 0]
  /\ info_dicts = [i \in TaskIds |-> << >>]
  /\ watch_task_info = EmptyMap
  /\ watch_task_lock = None
  /\ reader_pc = "idle"
  /\ copies = << >>

\* The results f can return to retry; bool() accepts those that are not empty.
Results == {"", "partial", "complete"}
Truthy == {"partial", "complete"}

\* The predicates given as check_f, each as the set of results it accepts:
\* the default bool, a stricter one, one that accepts nothing.
CheckFs == {Truthy, {"complete"}, {}}

\* The largest n, and the largest retries, of the model.
MaxN == 3
MaxRetries == 3

\* The exit statuses of a command; a negative one is the signal that killed it.
ExitCodes == {0, 1, 2, -9}

\* retry is not being called.
RetryIdle ==
  /\ retry_n = 0
  /\ check_f = Truthy
  /\ wait_f = FALSE
  /\ retry_c = 0
  /\ retry_pc = "idle"
  /\ retry_ret = "unset"
  /\ f_calls = << >>
  /\ wait_calls = << >>

\* assert_exec is not being called.
AssertExecIdle ==
  /\ retries = 0
  /\ attempt = 0
  /\ exec_rc = 0
  /\ exec_pc = "idle"
  /\ remove_tmp_working_dir = TRUE
  /\ exec_rcs = << >>
  /\ sleeps = 0

\* The values of the history variables after a step that started no
\* subprocess, and after one that left no block.
NoPopen == [thread |-> None, cwd |-> None, function |-> None]
NotRestored == [thread |-> None, tl_before |-> None, os_before |-> None, raised |-> FALSE]

\* The module is loaded: the process is in its start directory, no thread has
\* called Dir.getcwd().
DirLoaded ==
  /\ os_cwd = StartDir
  /\ tl_cwd = [t \in Threads |-> None]
  /\ dirs = [t \in Threads |-> << >>]
  /\ thread_pc = [t \in Threads |-> "body"]
  /\ raising = [t \in Threads |-> FALSE]
  /\ popen = NoPopen
  /\ restored = NotRestored

\* d[k] = v in Python: a new key or a replaced value.
Put(d, k, v) == (k :> v) @@ d

\* The fields of self the stages read and write, as one record; failed is set
\* when a stage ended the process (_exit_with_error or an uncaught exception).
\* rpm_queries is not a field of self: it collects the <<package, el version>>
\* pairs for which the running stage asked rpm_meta.get_latest_brew_build.
Self ==
  [rhcos_by_tag |-> rhcos_by_tag,
   component_image_builds |-> component_image_builds,
   component_rpm_builds |-> component_rpm_builds,
   basis_event |-> basis_event,
   basis_event_ts |-> basis_event_ts,
   force_is |-> force_is,
   rhcos_version |-> rhcos_version,
   rpm_queries |-> {},
   failed |-> FALSE]

\* The fields of self after construction.
Constructed ==
  [rhcos_by_tag |-> EmptyMap,
   component_image_builds |-> EmptyMap,
   component_rpm_builds |-> EmptyMap,
   basis_event |-> 0,
   basis_event_ts |-> 0,
   force_is |-> {},
   rhcos_version |-> "",
   rpm_queries |-> {},
   failed |-> FALSE]

\* _exit_with_error: the process exits, the fields stay as they are.
ExitWithError(s) == [s EXCEPT !.failed = TRUE]

\* Mutant of Becomes: run() goes on after a fatal error.
Becomes_GoesOn(s, next) ==
  /\ rhcos_by_tag' = s.rhcos_by_tag
  /\ component_image_builds' = s.component_image_builds
  /\ component_rpm_builds' = s.component_rpm_builds
  /\ basis_event' = s.basis_event
  /\ basis_event_ts' = s.basis_event_ts
  /\ force_is' = s.force_is
  /\ rhcos_version' = s.rhcos_version
  /\ pc' = next
  /\ failed_at' = failed_at

\* The fields of self become those of s; run() moves to `next`, or ends if s failed.
Becomes(s, next) ==
  /\ rhcos_by_tag' = s.rhcos_by_tag
  /\ component_image_builds' = s.component_image_builds
  /\ component_rpm_builds' = s.component_rpm_builds
  /\ basis_event' = s.basis_event
  /\ basis_event_ts' = s.basis_event_ts
  /\ force_is' = s.force_is
  /\ rhcos_version' = s.rhcos_version
  /\ pc' = IF s.failed THEN "failed" ELSE next
  /\ failed_at' = IF s.failed THEN pc ELSE failed_at

(***************************************************************************)
(* _process_release, after its fetch returned.                             *)
(***************************************************************************)
\* Mutant of ReadManifest: a missing machine-os version is accepted.
ReadManifest_VersionOptional(s, m) ==
  IF Len(m.tags) = 0 THEN ExitWithError(s)
  ELSE [s EXCEPT !.rhcos_version = m.machine_os]

\* Lines 241-248: the manifest is validated and rhcos_version taken from it.
ReadManifest(s, m) ==
  IF Len(m.tags) = 0 THEN ExitWithError(s)
  ELSE IF m.machine_os = "" THEN ExitWithError(s)
  ELSE [s EXCEPT !.rhcos_version = m.machine_os]

\* image_meta.get_payload_tag_info() of the image metadata of a package.
PayloadTagInfo(package_name) ==
  LET meta == ImageMetaOf(package_name) IN <<meta.payload_name, meta.explicit>>

\* Mutant of NewBasisTs: the margin is forgotten.
NewBasisTs_NoMargin(ts, completion_ts) == Max(ts, completion_ts)

\* Lines 306-309: the basis instant after a build that completed at completion_ts.
NewBasisTs(ts, completion_ts) == Max(ts, completion_ts + Margin)

\* Lines 306-309 on the build the tag resolved to.
RaiseBasisTs(s, nvr) ==
  [s EXCEPT !.basis_event_ts = NewBasisTs(@, ImageBuilds[nvr].completion_ts)]

\* Mutant of ResolveConflict: without an explicit name the first build is kept.
ResolveConflict_KeepFirst(s, tag, package_name, build_nvr) ==
  LET info == PayloadTagInfo(package_name)
      payload_name == info[1]
      explicit == info[2]
  IN IF ~HasImageMeta(package_name)
     THEN ExitWithError(s)
     ELSE IF explicit
     THEN IF payload_name # tag.name
          THEN s
          ELSE RaiseBasisTs(
                 [s EXCEPT !.component_image_builds = Put(@, package_name, build_nvr)],
                 build_nvr)
     ELSE s

\* Mutant of ResolveConflict: a tag with the explicit name does not replace
\* the recorded build.
ResolveConflict_NoReplace(s, tag, package_name, build_nvr) ==
  LET info == PayloadTagInfo(package_name)
      payload_name == info[1]
      explicit == info[2]
  IN IF ~HasImageMeta(package_name)
     THEN ExitWithError(s)
     ELSE IF explicit
     THEN IF payload_name # tag.name
          THEN s
          ELSE RaiseBasisTs(s, build_nvr)
     ELSE ExitWithError(s)

\* Mutant of ResolveConflict: the ignored tag still raises the basis instant.
ResolveConflict_IgnoredRaisesTs(s, tag, package_name, build_nvr) ==
  LET info == PayloadTagInfo(package_name)
      payload_name == info[1]
      explicit == info[2]
  IN IF ~HasImageMeta(package_name)
     THEN ExitWithError(s)
     ELSE IF explicit
     THEN IF payload_name # tag.name
          THEN RaiseBasisTs(s, build_nvr)
          ELSE RaiseBasisTs(
                 [s EXCEPT !.component_image_builds = Put(@, package_name, build_nvr)],
                 build_nvr)
     ELSE ExitWithError(s)

\* Mutant of ResolveConflict: the explicit name is compared the wrong way round.
ResolveConflict_Inverted(s, tag, package_name, build_nvr) ==
  LET info == PayloadTagInfo(package_name)
      payload_name == info[1]
      explicit == info[2]
  IN IF ~HasImageMeta(package_name)
     THEN ExitWithError(s)
     ELSE IF explicit
     THEN IF payload_name = tag.name
          THEN s
          ELSE RaiseBasisTs(
                 [s EXCEPT !.component_image_builds = Put(@, package_name, build_nvr)],
                 build_nvr)
     ELSE ExitWithError(s)

\* Lines 268-286: the package is already recorded with another NVR.
ResolveConflict(s, tag, package_name, build_nvr) ==
  LET info == PayloadTagInfo(package_name)
      payload_name == info[1]
      explicit == info[2]
  IN IF ~HasImageMeta(package_name)
     THEN ExitWithError(s)   \* no image metadata to ask: the call raises
     ELSE IF explicit
     THEN IF payload_name # tag.name
          THEN s   \* the tag is ignored: continue
          ELSE RaiseBasisTs(
                 [s EXCEPT !.component_image_builds = Put(@, package_name, build_nvr)],
                 build_nvr)
     ELSE ExitWithError(s)

\* Lines 250-309: one iteration of the loop over the manifest's tags.
ProcessTag(s, brew_cpu_arch, tag) ==
  IF tag.name \in RhcosTagNames
  THEN LET by_arch == IF tag.name \in DOMAIN s.rhcos_by_tag
                      THEN s.rhcos_by_tag[tag.name] ELSE EmptyMap
       IN [s EXCEPT !.rhcos_by_tag =
             Put(@, tag.name, Put(by_arch, brew_cpu_arch, <<"payload", brew_cpu_arch>>))]
  ELSE LET package_name == ImageBuilds[tag.build].package_name
           build_nvr == tag.build
       IN IF package_name \in DOMAIN s.component_image_builds
          THEN IF build_nvr # s.component_image_builds[package_name]
               THEN ResolveConflict(s, tag, package_name, build_nvr)
               ELSE RaiseBasisTs(s, build_nvr)
          ELSE RaiseBasisTs(
                 [s EXCEPT !.component_image_builds = Put(@, package_name, build_nvr)],
                 build_nvr)


RECURSIVE ProcessTags(_, _, _, _)
\* The loop of lines 250-309 from tag i on; it ends at the first fatal error.
ProcessTags(s, brew_cpu_arch, tags, i) ==
  IF s.failed \/ i > Len(tags) THEN s
  ELSE ProcessTags(ProcessTag(s, brew_cpu_arch, tags[i]), brew_cpu_arch, tags, i + 1)

\* _process_release from the return of its fetch to its end.
ProcessRelease(s, brew_cpu_arch, m) ==
  LET r == ReadManifest(s, m)
  IN IF r.failed THEN r ELSE ProcessTags(r, brew_cpu_arch, m.tags, 1)

(***************************************************************************)
(* The build system's queries.                                             *)
(***************************************************************************)
\* Mutant of GetLastEvent: the first event at or after the instant.
GetLastEvent_FirstAfter(before) ==
  LET found == {e \in DOMAIN EventLog : EventLog[e] >= before}
  IN IF found = {} THEN 0 ELSE CHOOSE e \in found : \A f \in found : e <= f

\* koji_api.getLastEvent(before=ts): the most recent event at or before ts,
\* 0 when there is none (the call raises).
GetLastEvent(before) ==
  LET found == {e \in DOMAIN EventLog : EventLog[e] <= before}
  IN IF found = {} THEN 0 ELSE CHOOSE e \in found : \A f \in found : f <= e

\* The build of a table completed last among `candidates`, None without one.
LatestOf(table, candidates) ==
  IF candidates = {} THEN None
  ELSE CHOOSE n \in candidates :
         \A o \in candidates : table[o].completion_ts <= table[n].completion_ts

\* image_meta.get_latest_brew_build(complete_before_event=event)
LatestImageBuild(package_name, event) ==
  LatestOf(ImageBuilds,
           {n \in DOMAIN ImageBuilds :
              /\ ImageBuilds[n].package_name = package_name
              /\ ImageBuilds[n].completion_ts < EventLog[event]})

\* rpm_meta.get_latest_brew_build(el_target=el_ver, complete_before_event=event)
LatestRpmBuild(package_name, el_ver, event) ==
  LatestOf(RpmBuilds,
           {n \in DOMAIN RpmBuilds :
              /\ RpmBuilds[n].package_name = package_name
              /\ RpmBuilds[n].el = el_ver
              /\ RpmBuilds[n].completion_ts < EventLog[event]})

\* The container tags the RHCOS build metadata (meta.json) of a version and
\* arch lists.
RhcosBuildMeta(version, arch) ==
  IF version = "417.2" /\ arch = "aarch64" THEN {} ELSE RhcosTagNames

(***************************************************************************)
(* _determine_basis_brew_event, after the gather returned.                 *)
(***************************************************************************)
DetermineBasisBrewEvent(s) ==
  LET event == GetLastEvent(s.basis_event_ts)
  IN IF event = 0 THEN ExitWithError(s) ELSE [s EXCEPT !.basis_event = event]

(***************************************************************************)
(* _collect_outliers                                                       *)
(***************************************************************************)
\* Mutant of PinIfDifferent: no image is pinned.
PinIfDifferent_Never(s, package_name, basis_event_build_nvr) == s

\* Mutant of PinIfDifferent: every payload image found is pinned.
PinIfDifferent_Always(s, package_name, basis_event_build_nvr) ==
  [s EXCEPT !.force_is = @ \cup {package_name}]

\* Lines 390-397: the release's build against the basis event's build.
PinIfDifferent(s, package_name, basis_event_build_nvr) ==
  IF basis_event_build_nvr # s.component_image_builds[package_name]
  THEN [s EXCEPT !.force_is = @ \cup {package_name}]
  ELSE s

\* Mutant of CollectOutlier: a payload component no payload held ends the run.
CollectOutlier_AbsentFatal(s, image_meta) ==
  IF image_meta.base_only \/ ~image_meta.for_release THEN s
  ELSE LET package_name == image_meta.distgit_key
           basis_event_build_nvr == LatestImageBuild(package_name, s.basis_event)
       IN IF basis_event_build_nvr = None THEN ExitWithError(s)
          ELSE IF ~image_meta.is_payload
          THEN [s EXCEPT !.component_image_builds = Put(@, package_name, basis_event_build_nvr)]
          ELSE IF package_name \notin DOMAIN s.component_image_builds
          THEN ExitWithError(s)
          ELSE PinIfDifferent(s, package_name, basis_event_build_nvr)

\* Mutant of CollectOutlier: a non-payload component keeps the recorded build
\* and is compared with the basis event's like a payload component.
CollectOutlier_NonPayloadCompared(s, image_meta) ==
  IF image_meta.base_only \/ ~image_meta.for_release THEN s
  ELSE LET package_name == image_meta.distgit_key
           basis_event_build_nvr == LatestImageBuild(package_name, s.basis_event)
       IN IF basis_event_build_nvr = None THEN ExitWithError(s)
          ELSE IF package_name \notin DOMAIN s.component_image_builds
          THEN [s EXCEPT !.component_image_builds = Put(@, package_name, basis_event_build_nvr)]
          ELSE PinIfDifferent(s, package_name, basis_event_build_nvr)

\* Lines 348-400: one iteration of the loop over runtime.image_metas().
CollectOutlier(s, image_meta) ==
  IF image_meta.base_only \/ ~image_meta.for_release THEN s
  ELSE LET package_name == image_meta.distgit_key
           basis_event_build_nvr == LatestImageBuild(package_name, s.basis_event)
       IN IF basis_event_build_nvr = None THEN ExitWithError(s)
          ELSE IF ~image_meta.is_payload
          THEN [s EXCEPT !.component_image_builds = Put(@, package_name, basis_event_build_nvr)]
          ELSE IF package_name \notin DOMAIN s.component_image_builds
          THEN [s EXCEPT !.component_image_builds = Put(@, package_name, basis_event_build_nvr)]
          ELSE PinIfDifferent(s, package_name, basis_event_build_nvr)

RECURSIVE CollectOutliersFrom(_, _)
CollectOutliersFrom(s, i) ==
  IF s.failed \/ i > Len(ImageMetas) THEN s
  ELSE CollectOutliersFrom(CollectOutlier(s, ImageMetas[i]), i + 1)

CollectOutliers(s) == CollectOutliersFrom(s, 1)

(***************************************************************************)
(* _get_rhcos_container                                                    *)
(***************************************************************************)
\* runtime.group_config.arches, in order.
GroupArches == <<"x86_64", "aarch64">>

\* Lines 410-432: one iteration of the loop over the group's arches.
GetRhcosForArch(s, is_custom, arch) ==
  IF arch \in DOMAIN s.rhcos_by_tag[PrimaryRhcosTag] THEN s
  ELSE IF is_custom THEN s
  ELSE IF s.rhcos_version = "" THEN ExitWithError(s)
  ELSE IF PrimaryRhcosTag \notin RhcosBuildMeta(s.rhcos_version, arch) THEN ExitWithError(s)
  ELSE [s EXCEPT !.rhcos_by_tag[PrimaryRhcosTag] =
          Put(@, arch, <<"meta", s.rhcos_version, arch>>)]

RECURSIVE GetRhcosFrom(_, _, _)
GetRhcosFrom(s, is_custom, i) ==
  IF s.failed \/ i > Len(GroupArches) THEN s
  ELSE GetRhcosFrom(GetRhcosForArch(s, is_custom, GroupArches[i]), is_custom, i + 1)

\* No payload held the primary RHCOS tag: line 410 raises KeyError.
GetRhcosContainer(s, is_custom) ==
  IF PrimaryRhcosTag \notin DOMAIN s.rhcos_by_tag THEN ExitWithError(s)
  ELSE GetRhcosFrom(s, is_custom, 1)

(***************************************************************************)
(* _select_rpms                                                            *)
(***************************************************************************)
\* Lines 445-450: the RPM builds installed in the selected image builds.
RpmBuildIds(s) ==
  UNION {ImageBuilds[s.component_image_builds[p]].rpms : p \in DOMAIN s.component_image_builds}

\* Lines 494-503: the build is retained and compared with the basis event's.
RetainRpm(s, package_name, el_ver, rpm_build_nvr, basis_event_build_nvr) ==
  LET kept == [s EXCEPT !.component_rpm_builds[package_name] = Put(@, el_ver, rpm_build_nvr)]
  IN IF basis_event_build_nvr # rpm_build_nvr
     THEN [kept EXCEPT !.force_is = @ \cup {package_name}]
     ELSE kept

\* Mutant of SelectRpm: a package the basis event finds no build of is skipped.
SelectRpm_AbsentSkipped(s, rpm_build_nvr) ==
  LET package_name == RpmBuilds[rpm_build_nvr].package_name
      el_ver == RpmBuilds[rpm_build_nvr].el
  IN IF package_name \notin package_rpm_meta THEN s
     ELSE IF el_ver = 0 THEN ExitWithError(s)
     ELSE LET boot == IF package_name \notin DOMAIN s.component_rpm_builds
                      THEN [s EXCEPT !.component_rpm_builds = Put(@, package_name, EmptyMap)]
                      ELSE s
          IN IF el_ver \in DOMAIN boot.component_rpm_builds[package_name] THEN boot
             ELSE LET basis_event_build_nvr ==
                        LatestRpmBuild(package_name, el_ver, s.basis_event)
                      asked == [boot EXCEPT !.rpm_queries = @ \cup {<<package_name, el_ver>>}]
                  IN IF basis_event_build_nvr = None THEN asked
                     ELSE RetainRpm(asked, package_name, el_ver, rpm_build_nvr,
                                    basis_event_build_nvr)

\* Mutant of SelectRpm: the build read last is retained.
SelectRpm_LastWins(s, rpm_build_nvr) ==
  LET package_name == RpmBuilds[rpm_build_nvr].package_name
      el_ver == RpmBuilds[rpm_build_nvr].el
  IN IF package_name \notin package_rpm_meta THEN s
     ELSE IF el_ver = 0 THEN ExitWithError(s)
     ELSE LET boot == IF package_name \notin DOMAIN s.component_rpm_builds
                      THEN [s EXCEPT !.component_rpm_builds = Put(@, package_name, EmptyMap)]
                      ELSE s
              basis_event_build_nvr == LatestRpmBuild(package_name, el_ver, s.basis_event)
              asked == [boot EXCEPT !.rpm_queries = @ \cup {<<package_name, el_ver>>}]
          IN IF basis_event_build_nvr = None THEN ExitWithError(asked)
             ELSE RetainRpm(asked, package_name, el_ver, rpm_build_nvr, basis_event_build_nvr)

\* Mutant of SelectRpm: a build without el version is skipped.
SelectRpm_UnparseableSkipped(s, rpm_build_nvr) ==
  LET package_name == RpmBuilds[rpm_build_nvr].package_name
      el_ver == RpmBuilds[rpm_build_nvr].el
  IN IF package_name \notin package_rpm_meta THEN s
     ELSE IF el_ver = 0 THEN s
     ELSE LET boot == IF package_name \notin DOMAIN s.component_rpm_builds
                      THEN [s EXCEPT !.component_rpm_builds = Put(@, package_name, EmptyMap)]
                      ELSE s
          IN IF el_ver \in DOMAIN boot.component_rpm_builds[package_name] THEN boot
             ELSE LET basis_event_build_nvr ==
                        LatestRpmBuild(package_name, el_ver, s.basis_event)
                      asked == [boot EXCEPT !.rpm_queries = @ \cup {<<package_name, el_ver>>}]
                  IN IF basis_event_build_nvr = None THEN ExitWithError(asked)
                     ELSE RetainRpm(asked, package_name, el_ver, rpm_build_nvr,
                                    basis_event_build_nvr)

\* Mutant of SelectRpm: the roster is not consulted.
SelectRpm_NoRoster(s, rpm_build_nvr) ==
  LET package_name == RpmBuilds[rpm_build_nvr].package_name
      el_ver == RpmBuilds[rpm_build_nvr].el
  IN IF el_ver = 0 THEN ExitWithError(s)
     ELSE LET boot == IF package_name \notin DOMAIN s.component_rpm_builds
                      THEN [s EXCEPT !.component_rpm_builds = Put(@, package_name, EmptyMap)]
                      ELSE s
          IN IF el_ver \in DOMAIN boot.component_rpm_builds[package_name] THEN boot
             ELSE LET basis_event_build_nvr ==
                        LatestRpmBuild(package_name, el_ver, s.basis_event)
                      asked == [boot EXCEPT !.rpm_queries = @ \cup {<<package_name, el_ver>>}]
                  IN IF basis_event_build_nvr = None THEN ExitWithError(asked)
                     ELSE RetainRpm(asked, package_name, el_ver, rpm_build_nvr,
                                    basis_event_build_nvr)

\* Lines 458-503: one iteration of the loop over the RPM builds.
SelectRpm(s, rpm_build_nvr) ==
  LET package_name == RpmBuilds[rpm_build_nvr].package_name
      el_ver == RpmBuilds[rpm_build_nvr].el
  IN IF package_name \notin package_rpm_meta THEN s
     ELSE IF el_ver = 0 THEN ExitWithError(s)
     ELSE LET boot == IF package_name \notin DOMAIN s.component_rpm_builds
                      THEN [s EXCEPT !.component_rpm_builds = Put(@, package_name, EmptyMap)]
                      ELSE s
          IN IF el_ver \in DOMAIN boot.component_rpm_builds[package_name] THEN boot
             ELSE LET basis_event_build_nvr ==
                        LatestRpmBuild(package_name, el_ver, s.basis_event)
                      asked == [boot EXCEPT !.rpm_queries = @ \cup {<<package_name, el_ver>>}]
                  IN IF basis_event_build_nvr = None THEN ExitWithError(asked)
                     ELSE RetainRpm(asked, package_name, el_ver, rpm_build_nvr,
                                    basis_event_build_nvr)

RECURSIVE SelectRpmsFrom(_, _)
\* The loop over the builds still to read.  brew.get_build_objects lists them
\* in the iteration order of a Python set of build ids: any order.
SelectRpmsFrom(s, todo) ==
  IF s.failed \/ todo = {} THEN {s}
  ELSE UNION {SelectRpmsFrom(SelectRpm(s, n), todo \ {n}) : n \in todo}

\* Every state _select_rpms can end in.
SelectRpms(s) == SelectRpmsFrom(s, RpmBuildIds(s))

(***************************************************************************)
(* _get_member_overrides and _generate_assembly_definition                 *)
(***************************************************************************)
\* Mutant of ImageMemberOverrides: the override records the basis event's build.
ImageMemberOverrides_BasisNvr(s) ==
  { [distgit_key |-> p, nvr |-> LatestImageBuild(p, s.basis_event)] :
      p \in s.force_is \cap DOMAIN s.component_image_builds }

\* Lines 652-665; the list is modelled as the set of its entries.
ImageMemberOverrides(s) ==
  { [distgit_key |-> p, nvr |-> s.component_image_builds[p]] :
      p \in s.force_is \cap DOMAIN s.component_image_builds }

\* Mutant of RpmMemberOverrides: `if` in the place of the `elif` of line 666.
RpmMemberOverrides_NoElif(s) ==
  { [distgit_key |-> p, is |-> s.component_rpm_builds[p]] :
      p \in s.force_is \cap DOMAIN s.component_rpm_builds }

\* Lines 666-678: `is` holds every el version retained for the package.
RpmMemberOverrides(s) ==
  { [distgit_key |-> p, is |-> s.component_rpm_builds[p]] :
      p \in (s.force_is \ DOMAIN s.component_image_builds) \cap DOMAIN s.component_rpm_builds }

\* Mutant of GenerateAssemblyDefinition: the definition gives the event that
\* follows the basis event.
GenerateAssemblyDefinition_NextEvent(s, is_custom, references) ==
  [brew_event |-> s.basis_event + 1,
   reference_releases |-> references,
   arches |-> IF is_custom THEN DOMAIN s.rhcos_by_tag[PrimaryRhcosTag] ELSE {},
   rhcos |-> s.rhcos_by_tag,
   images |-> ImageMemberOverrides(s),
   rpms |-> RpmMemberOverrides(s)]

\* Lines 595-636, without the advisories and the upgrade edges.
GenerateAssemblyDefinition(s, is_custom, references) ==
  [brew_event |-> s.basis_event,
   reference_releases |-> references,
   arches |-> IF is_custom THEN DOMAIN s.rhcos_by_tag[PrimaryRhcosTag] ELSE {},
   rhcos |-> s.rhcos_by_tag,
   images |-> ImageMemberOverrides(s),
   rpms |-> RpmMemberOverrides(s)]


(***************************************************************************)
(* The run.                                                                *)
(***************************************************************************)
Init ==
  /\ manifest \in UNION {[A -> Manifests] : A \in SUBSET Arches}
  /\ custom \in BOOLEAN
  /\ pc = "validate"
  /\ task = [a \in Arches |-> "idle"]
  /\ idx = [a \in Arches |-> 0]
  /\ release_pullspecs = {}
  /\ rhcos_by_tag = Constructed.rhcos_by_tag
  /\ component_image_builds = Constructed.component_image_builds
  /\ component_rpm_builds = Constructed.component_rpm_builds
  /\ basis_event = Constructed.basis_event
  /\ basis_event_ts = Constructed.basis_event_ts
  /\ force_is = Constructed.force_is
  /\ rhcos_version = Constructed.rhcos_version
  /\ assembly_def = None
  /\ payload_builds = EmptyMap
  /\ failed_at = None
  /\ DirLoaded
  /\ WatchLoaded
  /\ RetryIdle
  /\ AssertExecIdle

fields == <<rhcos_by_tag, component_image_builds, component_rpm_builds, basis_event,
            basis_event_ts, force_is, rhcos_version>>

\* _validate_params: no release given, or one of the option checks fails.
ValidateParams ==
  /\ pc = "validate"
  /\ \E options_ok \in BOOLEAN :
       pc' = IF options_ok /\ DOMAIN manifest # {} THEN "pullspecs" ELSE "failed"
  /\ failed_at' = IF pc' = "failed" THEN pc ELSE failed_at
  /\ UNCHANGED <<tools, manifest, custom, task, idx, release_pullspecs, fields, assembly_def, payload_builds>>

\* _get_release_pullspecs: a release of another major.minor ends the run.
GetReleasePullspecs ==
  /\ pc = "pullspecs"
  /\ \E minor_ok \in BOOLEAN :
       IF minor_ok
       THEN release_pullspecs' = DOMAIN manifest /\ pc' = "select_images"
       ELSE release_pullspecs' = release_pullspecs /\ pc' = "failed"
  /\ failed_at' = IF pc' = "failed" THEN pc ELSE failed_at
  /\ UNCHANGED <<tools, manifest, custom, task, idx, fields, assembly_def, payload_builds>>

\* Lines 313-316: gather starts one _process_release per release; each runs to
\* its await of `oc adm release info`.
StartProcessRelease ==
  /\ pc = "select_images"
  /\ task' = [a \in Arches |-> IF a \in release_pullspecs THEN "fetching" ELSE "idle"]
  /\ pc' = "fetch"
  /\ UNCHANGED <<tools, manifest, custom, idx, release_pullspecs, fields, assembly_def, payload_builds,
                 failed_at>>

\* Mutant of LoopIdle: a fetch can return, and its task run, between two
\* iterations of another task's tag loop.
LoopIdle_Preemptive == TRUE

\* No task is between the return of its fetch and its end: the event loop
\* resumes a task only when the running one awaits or ends, and after its
\* fetch _process_release does neither before it ends.
LoopIdle == \A a \in Arches : task[a] # "merging"

\* The fetch of one release returns and its task resumes (lines 240-248).
FetchReturns(a) ==
  /\ pc = "fetch"
  /\ task[a] = "fetching"
  /\ LoopIdle
  /\ LET s == ReadManifest(Self, manifest[a])
     IN /\ Becomes(s, "fetch")
        /\ task' = [task EXCEPT ![a] = IF s.failed THEN "exited" ELSE "merging"]
        /\ idx' = IF s.failed THEN idx ELSE [idx EXCEPT ![a] = 1]
  /\ UNCHANGED <<tools, manifest, custom, release_pullspecs, assembly_def, payload_builds>>

\* The tag the resumed task of arch a reads next.
NextTag(a) == manifest[a].tags[idx[a]]

\* One iteration of the tag loop of the resumed task (lines 250-309).
ProcessNextTag(a) ==
  /\ pc = "fetch"
  /\ task[a] = "merging"
  /\ LET s == ProcessTag(Self, a, NextTag(a))
     IN /\ Becomes(s, "fetch")
        /\ task' = IF ~s.failed /\ idx[a] = Len(manifest[a].tags)
                   THEN [task EXCEPT ![a] = "done"] ELSE task
        /\ idx' = IF ~s.failed /\ idx[a] < Len(manifest[a].tags)
                  THEN [idx EXCEPT ![a] = @ + 1] ELSE idx
  /\ UNCHANGED <<tools, manifest, custom, release_pullspecs, assembly_def, payload_builds>>

AllTasksDone == \A a \in release_pullspecs : task[a] = "done"

\* Lines 318-328: the gather returned; the basis instant becomes an event.
GatherReturns ==
  /\ pc = "fetch"
  /\ AllTasksDone
  /\ Becomes(DetermineBasisBrewEvent(Self), "outliers")
  /\ payload_builds' = component_image_builds
  /\ UNCHANGED <<tools, manifest, custom, task, idx, release_pullspecs, assembly_def>>

RunCollectOutliers ==
  /\ pc = "outliers"
  /\ Becomes(CollectOutliers(Self), "rhcos")
  /\ UNCHANGED <<tools, manifest, custom, task, idx, release_pullspecs, assembly_def, payload_builds>>

RunGetRhcosContainer ==
  /\ pc = "rhcos"
  /\ Becomes(GetRhcosContainer(Self, custom), "rpms")
  /\ UNCHANGED <<tools, manifest, custom, task, idx, release_pullspecs, assembly_def, payload_builds>>

RunSelectRpms ==
  /\ pc = "rpms"
  /\ \E s \in SelectRpms(Self) : Becomes(s, "previous")
  /\ UNCHANGED <<tools, manifest, custom, task, idx, release_pullspecs, assembly_def, payload_builds>>

\* _calculate_previous_list writes final_previous_list only, which the model
\* leaves out with the upgrade graph.
CalculatePreviousList ==
  /\ pc = "previous"
  /\ pc' = "generate"
  /\ UNCHANGED <<tools, manifest, custom, task, idx, release_pullspecs, fields, assembly_def, payload_builds,
                 failed_at>>

\* run() returns the assembly definition.
RunGenerateAssemblyDefinition ==
  /\ pc = "generate"
  /\ assembly_def' = GenerateAssemblyDefinition(Self, custom, release_pullspecs)
  /\ pc' = "returned"
  /\ UNCHANGED <<tools, manifest, custom, task, idx, release_pullspecs, fields, payload_builds, failed_at>>

Next ==
  \/ ValidateParams
  \/ GetReleasePullspecs
  \/ StartProcessRelease
  \/ \E a \in Arches : FetchReturns(a)
  \/ \E a \in Arches : ProcessNextTag(a)
  \/ GatherReturns
  \/ RunCollectOutliers
  \/ RunGetRhcosContainer
  \/ RunSelectRpms
  \/ CalculatePreviousList
  \/ RunGenerateAssemblyDefinition

Spec == Init /\ [][Next]_all_vars


(***************************************************************************)
(* Whole runs as functions of the order in which the fetches return, for   *)
(* the properties that compare runs.                                       *)
(***************************************************************************)
\* The orders in which the fetches of the releases R can return.
Orders(R) ==
  {o \in [1..Cardinality(R) -> R] : \A i, j \in DOMAIN o : o[i] = o[j] => i = j}

RECURSIVE ProcessReleasesFrom(_, _, _)
ProcessReleasesFrom(s, order, i) ==
  IF s.failed \/ i > Len(order) THEN s
  ELSE ProcessReleasesFrom(ProcessRelease(s, order[i], manifest[order[i]]), order, i + 1)

\* The fields of self when the gather returns (or a task ended the process),
\* the fetches having returned in this order.
ProcessReleases(order) == ProcessReleasesFrom(Constructed, order, 1)

Outcome(s, references) ==
  [failed |-> s.failed,
   def |-> IF s.failed THEN EmptyMap
           ELSE GenerateAssemblyDefinition(s, custom, references)]

\* The ways run() can end from the return of the gather on: _select_images'
\* remainder, _get_rhcos_container, _select_rpms, the assembly definition.
OutcomesAfterGather(s, references) ==
  LET based == IF s.failed THEN s ELSE DetermineBasisBrewEvent(s)
      swept == IF based.failed THEN based ELSE CollectOutliers(based)
      rhcos == IF swept.failed THEN swept ELSE GetRhcosContainer(swept, custom)
  IN IF rhcos.failed THEN {Outcome(rhcos, references)}
     ELSE {Outcome(r, references) : r \in SelectRpms(rhcos)}

\* The ways run() can end on the releases R with the fetches returning in this order.
Outcomes(R, order) == OutcomesAfterGather(ProcessReleases(order), R)

(***************************************************************************)
(* Properties.                                                             *)
(***************************************************************************)
Returned == pc = "returned"

\* The gather returned and the basis event has not been looked up yet.
TasksCompleted == pc = "fetch" /\ release_pullspecs # {} /\ AllTasksDone

\* C1: when run() returns, every image build the gather accepted from the
\* payloads is the build the latest-build query returns for its package at
\* the basis event, or the image overrides pin its package to it.
C1_NoSilentDrift ==
  Returned =>
    \A p \in DOMAIN payload_builds :
      \/ payload_builds[p] = LatestImageBuild(p, basis_event)
      \/ [distgit_key |-> p, nvr |-> payload_builds[p]] \in assembly_def.images

\* C2: once every _process_release task has completed, the basis instant is at
\* least the completion time plus the margin of every build recorded in
\* component_image_builds.
C2_BasisTsCoversBuilds ==
  TasksCompleted =>
    \A p \in DOMAIN component_image_builds :
      basis_event_ts >= ImageBuilds[component_image_builds[p]].completion_ts + Margin

\* C2's case: two packages recorded, one sets the basis instant, the margin of
\* the other lies below it.
C2_Witness ==
  /\ TasksCompleted
  /\ \E p, q \in DOMAIN component_image_builds :
       /\ basis_event_ts = ImageBuilds[component_image_builds[p]].completion_ts + Margin
       /\ basis_event_ts > ImageBuilds[component_image_builds[q]].completion_ts + Margin


\* C3: the basis instant is monotone in the set of releases: for every subset
\* R of the releases processed, and every order of R that does not fail, the
\* basis instant of R alone is at most the one this run computed.
C3_MonotoneInReleases ==
  TasksCompleted =>
    \A R \in SUBSET release_pullspecs :
      \A o \in Orders(R) :
        ~ProcessReleases(o).failed => ProcessReleases(o).basis_event_ts <= basis_event_ts

\* C4: every order in which the fetches return, if it does not fail, yields
\* the basis instant this run computed.
C4_FetchOrderIndependentTs ==
  TasksCompleted =>
    \A o \in Orders(release_pullspecs) :
      ~ProcessReleases(o).failed => ProcessReleases(o).basis_event_ts = basis_event_ts

\* The process ended in a _process_release task or a later stage.
FailedInRun == pc = "failed" /\ release_pullspecs # {} /\ \E a \in Arches : task[a] # "idle"

\* C5: on the same inputs and build-system answers, under every order of the
\* fetches the run ends as this one did: it fails if this one failed, and
\* returns the same assembly definition if this one returned.
C5_DeterministicAnswer ==
  /\ Returned =>
       \A o \in Orders(release_pullspecs) :
         \E out \in Outcomes(release_pullspecs, o) : ~out.failed /\ out.def = assembly_def
  /\ FailedInRun =>
       \A o \in Orders(release_pullspecs) :
         \E out \in Outcomes(release_pullspecs, o) : out.failed


(***************************************************************************)
(* The tag loop's conflict policy.                                         *)
(***************************************************************************)
PackageOf(tag) == ImageBuilds[tag.build].package_name

IsComponentTag(tag) == tag.name \notin RhcosTagNames

\* The package's image metadata declares an explicit payload tag name.
DeclaresExplicit(package_name) ==
  HasImageMeta(package_name) /\ PayloadTagInfo(package_name)[2]

\* The tag carries the payload name the package's image metadata gives.
MatchesPayloadName(tag) == tag.name = PayloadTagInfo(PackageOf(tag))[1]

\* The task of arch a has resumed and the tag it reads next resolves to a
\* package that is recorded with another NVR.
ReadsConflictingTag(a) ==
  /\ task[a] = "merging"
  /\ IsComponentTag(NextTag(a))
  /\ PackageOf(NextTag(a)) \in DOMAIN component_image_builds
  /\ component_image_builds[PackageOf(NextTag(a))] # NextTag(a).build

\* C6: a tag in conflict with the recorded build of its package, whose image
\* metadata declares no explicit payload tag name, ends the run: the step that
\* reads it fails, and a failed run takes no further step, so that no
\* assembly definition is produced.
C6_ConflictWithoutTieBreakIsFatal ==
  [][ /\ \A a \in Arches :
           (pc = "fetch" /\ ReadsConflictingTag(a)
              /\ HasImageMeta(PackageOf(NextTag(a)))
              /\ ~DeclaresExplicit(PackageOf(NextTag(a))))
           => (pc' = "failed" /\ assembly_def' = None)
      /\ pc = "failed" => (pc' = "failed" /\ assembly_def' = None) ]_vars

\* C6's case: the run failed on the tag of the earlier build y-1, the later
\* build y-2 being recorded.
C6_Witness ==
  /\ pc = "failed"
  /\ \E a \in Arches :
       /\ ReadsConflictingTag(a)
       /\ ~DeclaresExplicit(PackageOf(NextTag(a)))
       /\ NextTag(a).build = "y-1"
       /\ component_image_builds["y"] = "y-2"

\* The places <<arch, index>> of the tags the tasks have read so far; the tag
\* a task failed on is read.
TagsRead ==
  UNION { { <<a, i>> : i \in
              { j \in 1..Len(manifest[a].tags) :
                  \/ task[a] = "done"
                  \/ task[a] = "merging" /\ (j < idx[a] \/ (j = idx[a] /\ pc = "failed")) } }
          : a \in release_pullspecs }

\* The component tags of a package read so far.
TagsReadOf(package_name) ==
  { manifest[place[1]].tags[place[2]] : place \in
      { q \in TagsRead : /\ IsComponentTag(manifest[q[1]].tags[q[2]])
                         /\ PackageOf(manifest[q[1]].tags[q[2]]) = package_name } }

\* The tasks are running, or one of them ended the process.
FetchPhase ==
  \/ pc = "fetch"
  \/ pc = "failed" /\ \E a \in release_pullspecs : task[a] \in {"fetching", "merging", "exited"}

\* The process ended on a tag of this package.
FailedOnTagOf(package_name) ==
  /\ pc = "failed"
  /\ \E a \in Arches : /\ task[a] = "merging"
                       /\ IsComponentTag(NextTag(a))
                       /\ PackageOf(NextTag(a)) = package_name

\* C7: when the tags read for a package that declares an explicit payload tag
\* name resolve to two builds B1 # B2, and exactly the tags of B2 carry the
\* explicit name, then component_image_builds holds B2 for the package and
\* the run has not failed on it, in whichever order the tags were read.
C7_ExplicitOverrideWins ==
  FetchPhase =>
    \A package_name \in {meta.distgit_key : meta \in {ImageMetas[i] : i \in 1..Len(ImageMetas)}} :
      DeclaresExplicit(package_name) =>
        LET read == TagsReadOf(package_name)
            B2 == {tag.build : tag \in {r \in read : MatchesPayloadName(r)}}
            B1 == {tag.build : tag \in {r \in read : ~MatchesPayloadName(r)}}
        IN (Cardinality(B1) = 1 /\ Cardinality(B2) = 1 /\ B1 # B2)
           => /\ package_name \in DOMAIN component_image_builds
              /\ component_image_builds[package_name] \in B2
              /\ ~FailedOnTagOf(package_name)

\* C7's case: the tag of B1 = x-1 was read first and recorded, then the tag
\* of B2 = x-2, which carries the explicit name, replaced it.
C7_Witness ==
  /\ pc = "fetch"
  /\ \E a, b \in Arches :
       /\ task[a] = "done" /\ manifest[a].tags = <<[name |-> "xold", build |-> "x-1"]>>
       /\ task[b] = "merging" /\ idx[b] = 2
       /\ manifest[b].tags[1] = [name |-> "x", build |-> "x-2"]
       /\ component_image_builds["x"] = "x-2"

C9_LastExplicitMatchWins ==
  [][ \A a \in Arches :
        (pc = "fetch" /\ task[a] = "merging" /\ IsComponentTag(NextTag(a))
           /\ DeclaresExplicit(PackageOf(NextTag(a)))
           /\ MatchesPayloadName(NextTag(a)))
        => /\ component_image_builds' =
                Put(component_image_builds, PackageOf(NextTag(a)), NextTag(a).build)
           /\ pc' = "fetch" ]_vars

\* C9's case: the tag x of build x-2 was read by a task that is done, then
\* another task read the tag x of build x-3, which replaced x-2.
C9_Witness ==
  /\ pc = "fetch"
  /\ \E a, b \in Arches :
       /\ task[a] = "done" /\ manifest[a].tags = <<[name |-> "x", build |-> "x-2"]>>
       /\ task[b] = "merging" /\ idx[b] = 2
       /\ manifest[b].tags[1] = [name |-> "x", build |-> "x-3"]
       /\ component_image_builds["x"] = "x-3"

SomeRpmDiffers(package_name) ==
  /\ package_name \in DOMAIN component_rpm_builds
  /\ \E el_ver \in DOMAIN component_rpm_builds[package_name] :
       component_rpm_builds[package_name][el_ver]
         # LatestRpmBuild(package_name, el_ver, basis_event)

ImageMetaSet == {ImageMetas[i] : i \in DOMAIN ImageMetas}

\* Release-critical: the component reaches line 372.
ReleaseCritical(image_meta) ==
  image_meta.is_payload /\ image_meta.for_release /\ ~image_meta.base_only

\* _collect_outliers ran to its end.
CollectOutliersStep == pc = "outliers" /\ pc' = "rhcos"

\* C11: for every release-critical component whose package the payloads
\* resolved, _collect_outliers adds the package to force_is if and only if the
\* NVR of the basis event's build differs from the NVR of the resolved build.
C11_ImageClassificationExact ==
  [][ CollectOutliersStep =>
        \A image_meta \in ImageMetaSet :
          ( /\ ReleaseCritical(image_meta)
            /\ image_meta.distgit_key \in DOMAIN component_image_builds )
          => ( image_meta.distgit_key \in force_is'
                 <=> LatestImageBuild(image_meta.distgit_key, basis_event)
                       # component_image_builds[image_meta.distgit_key] ) ]_vars

\* C11's case: _collect_outliers has run over two release-critical packages
\* of the payloads, it pinned one and left the other, which the basis event
\* selects.
C11_Witness ==
  /\ pc = "rhcos"
  /\ \E m1, m2 \in ImageMetaSet :
       /\ ReleaseCritical(m1) /\ ReleaseCritical(m2)
       /\ {m1.distgit_key, m2.distgit_key} \subseteq DOMAIN payload_builds
       /\ m1.distgit_key \in force_is
       /\ payload_builds[m1.distgit_key] # LatestImageBuild(m1.distgit_key, basis_event)
       /\ m2.distgit_key \notin force_is
       /\ payload_builds[m2.distgit_key] = LatestImageBuild(m2.distgit_key, basis_event)

\* The package has image metadata that makes it release-critical.
ReleaseCriticalPackage(package_name) ==
  HasImageMeta(package_name) /\ ReleaseCritical(ImageMetaOf(package_name))

\* The basis event's build of a package the payloads resolved is another NVR.
BasisEventSelectsAnother(package_name) ==
  /\ basis_event # 0
  /\ LatestImageBuild(package_name, basis_event) # None
  /\ LatestImageBuild(package_name, basis_event) # payload_builds[package_name]

\* C12: when the basis event's build of a release-critical package differs
\* from the build observed in the payloads, component_image_builds keeps the
\* observed build for the rest of the run, and the returned definition holds
\* exactly one image override for the package, whose nvr is the observed one.
C12_PinnedImageRecordsObserved ==
  \A package_name \in DOMAIN payload_builds :
    (ReleaseCriticalPackage(package_name) /\ BasisEventSelectsAnother(package_name))
    => /\ package_name \in DOMAIN component_image_builds
       /\ component_image_builds[package_name] = payload_builds[package_name]
       /\ Returned =>
            {o \in assembly_def.images : o.distgit_key = package_name}
              = {[distgit_key |-> package_name, nvr |-> payload_builds[package_name]]}

\* C12's case: run() returned and the basis event selects another build of a
\* release-critical package of the payloads.
C12_Witness ==
  /\ Returned
  /\ \E package_name \in DOMAIN payload_builds :
       ReleaseCriticalPackage(package_name) /\ BasisEventSelectsAnother(package_name)

\* The components _collect_outliers asks the basis event's build of.
QueriedMetas == {image_meta \in ImageMetaSet : image_meta.for_release /\ ~image_meta.base_only}

\* The basis event's query finds no build of a component (lines 354-357).
SomeImageQueryFindsNothing ==
  \E image_meta \in QueriedMetas : LatestImageBuild(image_meta.distgit_key, basis_event) = None

\* C13: a release-critical component whose package the payloads did not
\* resolve does not end the run, in custom and in strict mode:
\* _collect_outliers fails only when a query finds no build, and when it
\* runs to its end component_image_builds holds the basis event's build for
\* the package and the package is not in force_is.
C13_AbsentFromPayloadsNotFatal ==
  [][ /\ (pc = "outliers" /\ pc' = "failed") => SomeImageQueryFindsNothing
      /\ CollectOutliersStep =>
           \A image_meta \in ImageMetaSet :
             ( /\ ReleaseCritical(image_meta)
               /\ image_meta.distgit_key \notin DOMAIN component_image_builds )
             => /\ image_meta.distgit_key \in DOMAIN component_image_builds'
                /\ component_image_builds'[image_meta.distgit_key]
                     = LatestImageBuild(image_meta.distgit_key, basis_event)
                /\ image_meta.distgit_key \notin force_is' ]_vars

\* C13's case: in strict mode _collect_outliers has run over a release-critical
\* package other than z that no payload held, and took the basis event's build.
C13_Witness ==
  /\ pc = "rhcos"
  /\ ~custom
  /\ \E image_meta \in ImageMetaSet :
       /\ ReleaseCritical(image_meta)
       /\ image_meta.distgit_key # "z"
       /\ image_meta.distgit_key \notin DOMAIN payload_builds
       /\ component_image_builds[image_meta.distgit_key]
            = LatestImageBuild(image_meta.distgit_key, basis_event)
       /\ image_meta.distgit_key \notin force_is

\* After the step component_image_builds holds the basis event's build for the
\* component's package and the package is not in force_is.
TakesBasisEventBuild(image_meta) ==
  /\ image_meta.distgit_key \in DOMAIN component_image_builds'
  /\ component_image_builds'[image_meta.distgit_key]
       = LatestImageBuild(image_meta.distgit_key, basis_event)
  /\ image_meta.distgit_key \notin force_is'

\* The statement of C14 as the specification words it: every component that
\* is for_release and not is_payload takes the basis event's build and is not
\* pinned.
C14_EveryNonPayloadTakesBasisBuild ==
  [][ CollectOutliersStep =>
        \A image_meta \in ImageMetaSet :
          (image_meta.for_release /\ ~image_meta.is_payload)
          => TakesBasisEventBuild(image_meta) ]_vars

\* C14, amended: every component that is for_release, not base_only and not
\* is_payload takes the basis event's build, which replaces a build recorded
\* for its package, and is not pinned; a base_only component is skipped,
\* whatever its other flags, and component_image_builds is left as it is for
\* its package.
C14_NonPayloadTakesBasisBuild ==
  [][ CollectOutliersStep =>
        \A image_meta \in ImageMetaSet :
          /\ (image_meta.for_release /\ ~image_meta.base_only /\ ~image_meta.is_payload)
             => TakesBasisEventBuild(image_meta)
          /\ image_meta.base_only
             => /\ image_meta.distgit_key \notin force_is'
                /\ image_meta.distgit_key \in DOMAIN component_image_builds'
                     <=> image_meta.distgit_key \in DOMAIN component_image_builds
                /\ image_meta.distgit_key \in DOMAIN component_image_builds
                     => component_image_builds'[image_meta.distgit_key]
                          = component_image_builds[image_meta.distgit_key] ]_vars

\* C14's case: a payload held the build n-1 of the non-payload component n;
\* _collect_outliers has replaced it by the basis event's build and not
\* pinned n.
C14_Witness ==
  /\ pc = "rhcos"
  /\ "n" \in DOMAIN payload_builds
  /\ payload_builds["n"] = "n-1"
  /\ component_image_builds["n"] = "n-2"
  /\ "n" \notin force_is

(***************************************************************************)
(* The RPM reconciler, _select_rpms.                                       *)
(***************************************************************************)
\* The RPM builds of roster packages installed in the selected images.
RosterRpmBuilds ==
  {n \in RpmBuildIds(Self) : RpmBuilds[n].package_name \in package_rpm_meta}

\* No el version can be isolated in the release of one of them (line 468).
SomeRpmUnparseable == \E n \in RosterRpmBuilds : RpmBuilds[n].el = 0

\* The basis event's query finds no build for the package and el version of
\* one of them (lines 485-488).
SomeRpmQueryFindsNothing ==
  \E n \in RosterRpmBuilds :
    /\ RpmBuilds[n].el # 0
    /\ LatestRpmBuild(RpmBuilds[n].package_name, RpmBuilds[n].el, basis_event) = None

\* C15: absence is fatal.  When the basis event's query finds no build of a
\* for_release, non-base_only component, _collect_outliers ends the run; when
\* it finds no build for the package and el version of an RPM build of a
\* roster package, _select_rpms ends the run.
C15_AbsenceIsFatal ==
  [][ /\ (pc = "outliers" /\ SomeImageQueryFindsNothing)
         => (pc' = "failed" /\ failed_at' = "outliers" /\ assembly_def' = None)
      /\ (pc = "rpms" /\ SomeRpmQueryFindsNothing)
         => (pc' = "failed" /\ failed_at' = "rpms" /\ assembly_def' = None) ]_vars

\* C15's case: every image query found a build, every el version was
\* isolated, and _select_rpms ended the run on a query that found nothing.
C15_Witness ==
  /\ pc = "failed"
  /\ failed_at = "rpms"
  /\ ~SomeRpmUnparseable
  /\ SomeRpmQueryFindsNothing

RECURSIVE SelectRpmsPasses(_, _)
\* Every state the loop of _select_rpms passes through, from the state s with
\* the builds `todo` still to read.
SelectRpmsPasses(s, todo) ==
  {s} \cup (IF s.failed \/ todo = {} THEN {}
            ELSE UNION {SelectRpmsPasses(SelectRpm(s, n), todo \ {n}) : n \in todo})

\* A build is retained in s for the package and el version of the build n.
Retained(s, n) ==
  /\ RpmBuilds[n].package_name \in DOMAIN s.component_rpm_builds
  /\ RpmBuilds[n].el \in DOMAIN s.component_rpm_builds[RpmBuilds[n].package_name]

\* C16: component_rpm_builds holds one build per package and el version, the
\* first one the loop reads.  Wherever the loop stands, reading a build of a
\* pair that has a retained build (the same build again, or another one)
\* changes nothing: not the retained build, not force_is, and it asks no query
\* and does not fail; reading a build of a pair that has none retains that
\* build unless the read ends the run; reading a build twice gives what
\* reading it once gives.  When the loop has ended, every retained build is a
\* build installed in a selected image, of that package and el version.
C16_RpmDeduplication ==
  /\ pc = "rpms" =>
       \A s \in SelectRpmsPasses(Self, RpmBuildIds(Self)) :
         ~s.failed =>
           \A n \in {r \in RosterRpmBuilds : RpmBuilds[r].el # 0} :
             /\ Retained(s, n) => SelectRpm(s, n) = s
             /\ (~Retained(s, n) /\ ~SelectRpm(s, n).failed)
                => SelectRpm(s, n).component_rpm_builds[RpmBuilds[n].package_name][RpmBuilds[n].el] = n
             /\ SelectRpm(SelectRpm(s, n), n) = SelectRpm(s, n)
  /\ pc = "previous" =>
       \A package_name \in DOMAIN component_rpm_builds :
         \A el_ver \in DOMAIN component_rpm_builds[package_name] :
           /\ component_rpm_builds[package_name][el_ver] \in RosterRpmBuilds
           /\ RpmBuilds[component_rpm_builds[package_name][el_ver]].package_name = package_name
           /\ RpmBuilds[component_rpm_builds[package_name][el_ver]].el = el_ver

\* C16's case: the selected images install two builds of one package and el
\* version, and _select_rpms has retained one of them.
C16_Witness ==
  /\ pc = "previous"
  /\ \E n1, n2 \in RosterRpmBuilds :
       /\ n1 # n2
       /\ RpmBuilds[n1].package_name = RpmBuilds[n2].package_name
       /\ RpmBuilds[n1].el = RpmBuilds[n2].el
       /\ component_rpm_builds[RpmBuilds[n1].package_name][RpmBuilds[n1].el] = n1

\* The retained build of the package for the el version is not the build the
\* basis event selects.
RpmMismatch(package_name, el_ver) ==
  component_rpm_builds[package_name][el_ver]
    # LatestRpmBuild(package_name, el_ver, basis_event)

\* C17: in the returned definition, for every retained package and el version
\* whose build differs from the build the basis event selects, the RPM
\* overrides hold an entry of the package whose `is` gives the retained build
\* for that el version; a package whose retained builds all are the builds
\* the basis event selects has no RPM override.
C17_RpmMismatchIsPinned ==
  Returned =>
    \A package_name \in DOMAIN component_rpm_builds :
      /\ \A el_ver \in DOMAIN component_rpm_builds[package_name] :
           RpmMismatch(package_name, el_ver)
           => \E o \in assembly_def.rpms :
                /\ o.distgit_key = package_name
                /\ el_ver \in DOMAIN o.is
                /\ o.is[el_ver] = component_rpm_builds[package_name][el_ver]
      /\ (\A el_ver \in DOMAIN component_rpm_builds[package_name] :
            ~RpmMismatch(package_name, el_ver))
         => ~\E o \in assembly_def.rpms : o.distgit_key = package_name

\* C18: when no el version can be isolated in the release of an RPM build of
\* a roster package installed in a selected image, _select_rpms ends the run;
\* run() takes no further step, so that _get_member_overrides does not run and
\* no assembly definition is produced.
C18_UnparseableTargetIsFatal ==
  [][ /\ (pc = "rpms" /\ SomeRpmUnparseable)
         => (pc' = "failed" /\ failed_at' = "rpms" /\ assembly_def' = None)
      /\ failed_at = "rpms" => (pc' = "failed" /\ assembly_def' = None) ]_vars

\* C18's case: every query would find a build, and _select_rpms ended the run
\* on a release without el version.
C18_Witness ==
  /\ pc = "failed"
  /\ failed_at = "rpms"
  /\ assembly_def = None
  /\ SomeRpmUnparseable
  /\ ~SomeRpmQueryFindsNothing

\* The RPM builds of third parties installed in the selected images.
ThirdPartyRpmBuilds == RpmBuildIds(Self) \ RosterRpmBuilds

\* C19: wherever the loop of _select_rpms stands, reading an RPM build whose
\* package is not in package_rpm_meta changes nothing: component_rpm_builds
\* and force_is stay as they are, no query is asked and the run does not
\* fail, whether or not an el version can be isolated in its release.  When
\* the loop has ended, component_rpm_builds has no entry for its package.
C19_ThirdPartyIgnored ==
  /\ pc = "rpms" =>
       \A s \in SelectRpmsPasses(Self, RpmBuildIds(Self)) :
         ~s.failed => \A n \in ThirdPartyRpmBuilds : SelectRpm(s, n) = s
  /\ pc = "previous" =>
       \A n \in ThirdPartyRpmBuilds :
         /\ RpmBuilds[n].package_name \notin DOMAIN component_rpm_builds
         /\ RpmBuilds[n].package_name \notin force_is

\* C19's case: a selected image installs a third party's build in whose
\* release no el version can be isolated, and _select_rpms has run to its end.
C19_Witness ==
  /\ pc = "previous"
  /\ \E n \in ThirdPartyRpmBuilds :
       /\ RpmBuilds[n].el = 0
       /\ RpmBuilds[n].package_name \notin DOMAIN component_rpm_builds

(***************************************************************************)
(* The validation of a fetched manifest.                                   *)
(***************************************************************************)
\* The manifest has no image tag list or no machine-os display version.
LacksRequiredField(m) == Len(m.tags) = 0 \/ m.machine_os = ""

\* C20: when the fetch of a release returns a manifest without image tag list
\* or without machine-os display version, the task exits the process there:
\* the step that resumes it fails the run and leaves component_image_builds,
\* rhcos_by_tag and basis_event_ts as they were, so that none of the
\* release's tags is merged.
C20_ManifestValidationFailFast ==
  [][ \A a \in Arches :
        ( /\ pc = "fetch"
          /\ task[a] = "fetching"
          /\ LacksRequiredField(manifest[a])
          /\ task'[a] # "fetching" )
        => /\ task'[a] = "exited"
           /\ pc' = "failed"
           /\ failed_at' = "fetch"
           /\ assembly_def' = None
           /\ UNCHANGED <<component_image_builds, rhcos_by_tag, basis_event_ts>> ]_vars

\* C20's case: a task exited on a manifest without machine-os version whose
\* first tag is a component tag of a package that is not recorded.
C20_Witness ==
  /\ pc = "failed"
  /\ \E a \in Arches :
       /\ task[a] = "exited"
       /\ manifest[a].machine_os = ""
       /\ Len(manifest[a].tags) > 0
       /\ IsComponentTag(manifest[a].tags[1])
       /\ PackageOf(manifest[a].tags[1]) \notin DOMAIN component_image_builds

(***************************************************************************)
(* The propagation of fatal errors.                                        *)
(***************************************************************************)
\* The stage run() stands at raises a fatal error from the present state:
\* the tag the resumed task reads, the lookup of the basis event once every
\* task is done, the image reconciler, the RHCOS lookup, the RPM reconciler.
StageRaises ==
  \/ /\ pc = "fetch"
     /\ \E a \in Arches : task[a] = "merging" /\ ProcessTag(Self, a, NextTag(a)).failed
  \/ pc = "fetch" /\ AllTasksDone /\ DetermineBasisBrewEvent(Self).failed
  \/ pc = "outliers" /\ CollectOutliers(Self).failed
  \/ pc = "rhcos" /\ GetRhcosContainer(Self, custom).failed
  \/ pc = "rpms" /\ \A s \in SelectRpms(Self) : s.failed

\* C21: a fatal error raised by a stage of run() ends the run in that stage;
\* a run that ended takes no further step: no later stage executes, no task
\* whose fetch is outstanding is resumed, and no assembly definition is
\* returned.
C21_FatalErrorsStopEverything ==
  [][ /\ StageRaises => pc' = "failed"
      /\ \A a \in Arches :
           (pc = "fetch" /\ task[a] = "fetching" /\ task'[a] # "fetching"
              /\ ReadManifest(Self, manifest[a]).failed)
           => pc' = "failed"
      /\ pc' = "failed" => (failed_at' = pc /\ assembly_def' = None)
      /\ pc = "failed" => UNCHANGED vars ]_vars

\* C21's case: a task ended the run on a tag while the fetch of a sibling task
\* was outstanding; the sibling was never resumed.
C21_Witness ==
  /\ pc = "failed"
  /\ failed_at = "fetch"
  /\ assembly_def = None
  /\ \E a, b \in Arches :
       /\ task[a] = "merging"
       /\ ProcessTag(Self, a, NextTag(a)).failed
       /\ task[b] = "fetching"
       /\ idx[b] = 0

(***************************************************************************)
(* The basis event.                                                        *)
(***************************************************************************)
\* _determine_basis_brew_event has looked the basis event up.
BasisEventKnown == basis_event # 0

\* The statement of C22 as the specification words it: the basis event is the
\* first event at or after basis_event_ts.
C22_FirstEventAtOrAfter ==
  BasisEventKnown =>
    /\ EventLog[basis_event] >= basis_event_ts
    /\ \A e \in DOMAIN EventLog : e < basis_event => EventLog[e] < basis_event_ts

\* C22, amended: the basis event is the last event of the log that is not
\* after basis_event_ts.  Its timestamp is at most basis_event_ts, and no later
\* event of the log has a timestamp below basis_event_ts.
C22_LastEventNotAfter ==
  BasisEventKnown =>
    /\ basis_event \in DOMAIN EventLog
    /\ EventLog[basis_event] <= basis_event_ts
    /\ \A e \in DOMAIN EventLog : e > basis_event => EventLog[e] >= basis_event_ts

\* C22's case: the basis event was looked up, it lies before basis_event_ts
\* and the log has later events.
C22_Witness ==
  /\ BasisEventKnown
  /\ pc = "outliers"
  /\ EventLog[basis_event] < basis_event_ts
  /\ basis_event < Len(EventLog)

\* C23: basis_event is assigned once in a run, by the step that follows the
\* completion of every _process_release task; no step of _collect_outliers,
\* _get_rhcos_container, _select_rpms, _calculate_previous_list or
\* _generate_assembly_definition changes it, and the brew_event of the
\* returned definition is that value.
C23_BasisEventLifecycle ==
  [][ /\ basis_event' # basis_event
         => /\ pc = "fetch" /\ pc' = "outliers"
            /\ release_pullspecs # {} /\ AllTasksDone
            /\ basis_event = Constructed.basis_event
            /\ basis_event' = GetLastEvent(basis_event_ts)
      /\ pc' = "outliers" => basis_event' # basis_event
      /\ pc \in {"outliers", "rhcos", "rpms", "previous", "generate"}
         => basis_event' = basis_event
      /\ pc' = "returned" => assembly_def'.brew_event = basis_event ]_vars

\* C23's case: run() returned; both reconcilers pinned a package against the
\* basis event the definition gives.
C23_Witness ==
  /\ Returned
  /\ BasisEventKnown
  /\ assembly_def.brew_event = basis_event
  /\ assembly_def.images # {}
  /\ assembly_def.rpms # {}

\* A task is between the return of its fetch and its end.
Merging(a) == pc = "fetch" /\ task[a] = "merging"

\* C24: at most one _process_release task is between the return of its fetch
\* and its end, so the reads and writes of component_image_builds of one
\* release are not interleaved with another's; a task suspended in its fetch
\* has read no tag; and when every task has completed the fields are those
\* the releases leave when they are processed whole, one after the other, in
\* some order.
C24_MapAccessIsExclusive ==
  /\ \A a, b \in Arches : Merging(a) /\ Merging(b) => a = b
  /\ \A a \in Arches : task[a] = "fetching" => idx[a] = 0
  /\ TasksCompleted =>
       \E order \in Orders(release_pullspecs) :
         LET s == ProcessReleases(order)
         IN /\ ~s.failed
            /\ s.component_image_builds = component_image_builds
            /\ s.basis_event_ts = basis_event_ts
            /\ s.rhcos_by_tag = rhcos_by_tag
            /\ s.rhcos_version = rhcos_version

\* C24's case: one task has written the map and has a tag left to read while
\* the fetch of the other release has not returned.
C24_Witness ==
  \E a, b \in Arches :
    /\ Merging(a) /\ idx[a] = 2
    /\ DOMAIN component_image_builds # {}
    /\ task[b] = "fetching"
    /\ \E i \in DOMAIN manifest[b].tags : IsComponentTag(manifest[b].tags[i])

\* The step is the first one in which the task of arch a can assign a field:
\* the return of its fetch (line 248) or the first iteration of its tag loop.
FirstWritesOf(a) ==
  /\ pc = "fetch"
  /\ \/ task[a] = "fetching" /\ task'[a] = "merging"
     \/ task[a] = "merging" /\ idx[a] = 1

\* C25: of the fields the _process_release tasks can assign, only
\* component_image_builds is assigned by two tasks: a task that has assigned
\* nothing yet changes basis_event_ts, rhcos_version or rhcos_by_tag only
\* from the value construction gave it, never from a value another task left.
C25_OnlyBuildMapIsShared ==
  [][ \A a \in Arches : FirstWritesOf(a) =>
        /\ basis_event_ts' # basis_event_ts => basis_event_ts = Constructed.basis_event_ts
        /\ rhcos_version' # rhcos_version => rhcos_version = Constructed.rhcos_version
        /\ rhcos_by_tag' # rhcos_by_tag => rhcos_by_tag = Constructed.rhcos_by_tag ]_vars

\* The overrides of the returned definition that bear the package's name.
ImageOverridesOf(package_name) ==
  {o \in assembly_def.images : o.distgit_key = package_name}

RpmOverridesOf(package_name) ==
  {o \in assembly_def.rpms : o.distgit_key = package_name}

NoRun ==
  /\ manifest = EmptyMap
  /\ custom = FALSE
  /\ pc = "validate"
  /\ task = [a \in Arches |-> "idle"]
  /\ idx = [a \in Arches |-> 0]
  /\ release_pullspecs = {}
  /\ rhcos_by_tag = Constructed.rhcos_by_tag
  /\ component_image_builds = Constructed.component_image_builds
  /\ component_rpm_builds = Constructed.component_rpm_builds
  /\ basis_event = Constructed.basis_event
  /\ basis_event_ts = Constructed.basis_event_ts
  /\ force_is = Constructed.force_is
  /\ rhcos_version = Constructed.rhcos_version
  /\ assembly_def = None
  /\ payload_builds = EmptyMap
  /\ failed_at = None

\* Mutant of DirGetcwd: the working directory of the process.
DirGetcwd_ProcessWide(t) == os_cwd

\* Dir.getcwd() (lines 49-53): the value it returns in thread t; it also keeps
\* the value in the thread's storage.
DirGetcwd(t) == IF tl_cwd[t] = None THEN os_cwd ELSE tl_cwd[t]

Depth(t) == Len(dirs[t])

\* The Dir object of the innermost block thread t is in.
Innermost(t) == dirs[t][Depth(t)]

\* The history variables tell of the last step only.
Forgotten ==
  /\ popen' = NoPopen
  /\ restored' = NotRestored

\* Line 40, on `with Dir(d)`: self.previousDir = self.getcwd().  Before the
\* call Dir.getcwd() gives the thread the value kept as previousDir.
EnterGetcwd(t, d) ==
  /\ thread_pc[t] = "body"
  /\ ~raising[t]
  /\ Depth(t) < MaxDepth
  /\ dirs' = [dirs EXCEPT ![t] =
                Append(@, [dir |-> d, previousDir |-> DirGetcwd(t), os_before |-> os_cwd])]
  /\ tl_cwd' = [tl_cwd EXCEPT ![t] = DirGetcwd(t)]
  /\ thread_pc' = [thread_pc EXCEPT ![t] = "enter_chdir"]
  /\ Forgotten
  /\ UNCHANGED <<vars, watch_vars, retry_vars, exec_vars, os_cwd, raising>>

\* Line 41: os.chdir(self.dir).
EnterChdir(t) ==
  /\ thread_pc[t] = "enter_chdir"
  /\ os_cwd' = Innermost(t).dir
  /\ thread_pc' = [thread_pc EXCEPT ![t] = "enter_tl"]
  /\ Forgotten
  /\ UNCHANGED <<vars, watch_vars, retry_vars, exec_vars, tl_cwd, dirs, raising>>

\* Lines 42-43: self._tl.cwd = self.dir; the body of the block begins.
EnterSetTl(t) ==
  /\ thread_pc[t] = "enter_tl"
  /\ tl_cwd' = [tl_cwd EXCEPT ![t] = Innermost(t).dir]
  /\ thread_pc' = [thread_pc EXCEPT ![t] = "body"]
  /\ Forgotten
  /\ UNCHANGED <<vars, watch_vars, retry_vars, exec_vars, os_cwd, dirs, raising>>

\* The body of a block raises an exception.
Raise(t) ==
  /\ thread_pc[t] = "body"
  /\ Depth(t) > 0
  /\ ~raising[t]
  /\ raising' = [raising EXCEPT ![t] = TRUE]
  /\ Forgotten
  /\ UNCHANGED <<vars, watch_vars, retry_vars, exec_vars, os_cwd, tl_cwd, dirs, thread_pc>>

\* Line 46, when the body ends or an exception leaves it: os.chdir(self.previousDir).
ExitChdir(t) ==
  /\ thread_pc[t] = "body"
  /\ Depth(t) > 0
  /\ os_cwd' = Innermost(t).previousDir
  /\ thread_pc' = [thread_pc EXCEPT ![t] = "exit_tl"]
  /\ Forgotten
  /\ UNCHANGED <<vars, watch_vars, retry_vars, exec_vars, tl_cwd, dirs, raising>>

\* Line 47: self._tl.cwd = self.previousDir, and __exit__ returns.  An
\* exception goes on to the enclosing block or is caught there; outside every
\* block the thread's caller has it.
ExitSetTl(t) ==
  /\ thread_pc[t] = "exit_tl"
  /\ tl_cwd' = [tl_cwd EXCEPT ![t] = Innermost(t).previousDir]
  /\ dirs' = [dirs EXCEPT ![t] = SubSeq(@, 1, Len(@) - 1)]
  /\ thread_pc' = [thread_pc EXCEPT ![t] = "body"]
  /\ \E caught \in BOOLEAN :
       raising' = [raising EXCEPT ![t] = raising[t] /\ ~caught /\ Depth(t) > 1]
  /\ restored' = [thread |-> t,
                   tl_before |-> Innermost(t).previousDir,
                   os_before |-> Innermost(t).os_before,
                   raised |-> raising[t]]
  /\ popen' = NoPopen
  /\ UNCHANGED <<vars, watch_vars, retry_vars, exec_vars, os_cwd>>

\* exec_cmd (lines 112-120) and gather_exec (lines 148-154): cwd =
\* Dir.getcwd(), then subprocess.Popen(cmd_list, cwd=cwd, ...).  Nothing
\* another thread does between the two changes `cwd`, a local.
Popen(t) ==
  /\ thread_pc[t] = "body"
  /\ ~raising[t]
  /\ tl_cwd' = [tl_cwd EXCEPT ![t] = DirGetcwd(t)]
  /\ \E function \in {"exec_cmd", "gather_exec"} :
       popen' = [thread |-> t, cwd |-> DirGetcwd(t), function |-> function]
  /\ restored' = NotRestored
  /\ UNCHANGED <<vars, watch_vars, retry_vars, exec_vars, os_cwd, dirs, thread_pc, raising>>

InitDir == NoRun /\ DirLoaded /\ WatchLoaded /\ RetryIdle /\ AssertExecIdle

NextDir ==
  \/ \E t \in Threads, d \in Paths : EnterGetcwd(t, d)
  \/ \E t \in Threads : EnterChdir(t)
  \/ \E t \in Threads : EnterSetTl(t)
  \/ \E t \in Threads : Raise(t)
  \/ \E t \in Threads : ExitChdir(t)
  \/ \E t \in Threads : ExitSetTl(t)
  \/ \E t \in Threads : Popen(t)

SpecDir == InitDir /\ [][NextDir]_all_vars

\* The last step started a subprocess in thread t, the thread being inside a
\* `with` block.
StartedWithin(t) == popen.thread = t /\ Depth(t) > 0

\* C27: a subprocess that exec_cmd or gather_exec starts in a thread that is
\* inside a `with Dir(d)` block is started with cwd = d, the directory of the
\* innermost block, whatever the working directory of the process is.
C27_SubprocessRunsInBlockDir ==
  \A t \in Threads : StartedWithin(t) => popen.cwd = Innermost(t).dir

\* C27's case: a thread inside two nested blocks started a subprocess while
\* another thread's block had made another directory the process's.
C27_Witness ==
  \E t, u \in Threads :
    /\ t # u
    /\ StartedWithin(t)
    /\ Depth(t) = 2
    /\ dirs[t][1].dir # Innermost(t).dir
    /\ popen.cwd = Innermost(t).dir
    /\ os_cwd # Innermost(t).dir
    /\ Depth(u) > 0
    /\ thread_pc[u] = "body"

\* The last step was thread t leaving a `with` block.
LeftBlock(t) == restored.thread = t

\* C28: when a thread has left a `with Dir(d)` block, by the end of the body
\* or by an exception, the value Dir.getcwd() gives it and the working
\* directory of the process are those of the moment before the block's
\* __enter__.
C28_DirRestoresPreviousCwd ==
  \A t \in Threads :
    LeftBlock(t) =>
      /\ DirGetcwd(t) = restored.tl_before
      /\ os_cwd = restored.os_before

(***************************************************************************)
(* common.py: watch_task and get_watch_task_info_copy.                     *)
(***************************************************************************)
\* watcher.is_done() and watcher.is_success() of koji_cli's TaskWatcher.
IsDone(info) == info \in {"CLOSED", "CANCELED", "FAILED"}
IsSuccess(info) == info = "CLOSED"

\* The dicts the module's dict, or a copy of it, refers to, as they are now.
Deref(d) == [i \in DOMAIN d |-> info_dicts[i][d[i]]]

\* Mutant of RecordInfo: the dict the key refers to is updated in place.
RecordInfo_InPlace(h, d, task_id, info) ==
  IF task_id \in DOMAIN d
  THEN [heap |-> [h EXCEPT ![task_id][d[task_id]] = info], dict |-> d]
  ELSE [heap |-> [h EXCEPT ![task_id] = Append(@, info)],
        dict |-> Put(d, task_id, Len(h[task_id]) + 1)]

\* Line 210: watch_task_info[task_id] = dict(watcher.info): a new dict is
\* made and the key refers to it.
RecordInfo(h, d, task_id, info) ==
  [heap |-> [h EXCEPT ![task_id] = Append(@, info)],
   dict |-> Put(d, task_id, Len(h[task_id]) + 1)]

\* Mutant of WaitError: the task is given up at the instant `end`.
WaitError_AtDeadline(i) ==
  IF terminate_event THEN "Interrupted"
  ELSE IF now >= end_ts[i] THEN "Timeout building image"
  ELSE None

\* Lines 215-218: the error the loop ends with after the wait, None to go on.
WaitError(i) ==
  IF terminate_event THEN "Interrupted"
  ELSE IF now > end_ts[i] THEN "Timeout building image"
  ELSE None

\* Lines 201-204.
StartWatch(i) ==
  /\ watch_pc[i] = "idle"
  /\ end_ts' = [end_ts EXCEPT ![i] = now + WatchLimit]
  /\ watch_pc' = [watch_pc EXCEPT ![i] = "update"]
  /\ UNCHANGED <<vars, dir_vars, retry_vars, exec_vars, brew_state, terminate_event, now, watcher_info, watch_error,
                 watch_ret, cancels, info_dicts, watch_task_info, watch_task_lock, reader_pc,
                 copies>>

\* Line 206: watcher.update() asks Brew for the task's info.
WatcherUpdate(i) ==
  /\ watch_pc[i] = "update"
  /\ Len(info_dicts[i]) < MaxUpdates
  /\ watcher_info' = [watcher_info EXCEPT ![i] = brew_state[i]]
  /\ watch_pc' = [watch_pc EXCEPT ![i] = "lock"]
  /\ UNCHANGED <<vars, dir_vars, retry_vars, exec_vars, brew_state, terminate_event, now, end_ts, watch_error,
                 watch_ret, cancels, info_dicts, watch_task_info, watch_task_lock, reader_pc,
                 copies>>

\* Line 209: `with watch_task_lock` is entered.
WatchAcquire(i) ==
  /\ watch_pc[i] = "lock"
  /\ watch_task_lock = None
  /\ watch_task_lock' = i
  /\ watch_pc' = [watch_pc EXCEPT ![i] = "store"]
  /\ UNCHANGED <<vars, dir_vars, retry_vars, exec_vars, brew_state, terminate_event, now, end_ts, watcher_info,
                 watch_error, watch_ret, cancels, info_dicts, watch_task_info, reader_pc,
                 copies>>

\* Line 210, and the lock is released.
WatchStore(i) ==
  /\ watch_pc[i] = "store"
  /\ LET r == RecordInfo(info_dicts, watch_task_info, i, watcher_info[i])
     IN /\ info_dicts' = r.heap
        /\ watch_task_info' = r.dict
  /\ watch_task_lock' = None
  /\ watch_pc' = [watch_pc EXCEPT ![i] = "check"]
  /\ UNCHANGED <<vars, dir_vars, retry_vars, exec_vars, brew_state, terminate_event, now, end_ts, watcher_info,
                 watch_error, watch_ret, cancels, reader_pc, copies>>

\* Lines 212-214.
DoneCheck(i) ==
  /\ watch_pc[i] = "check"
  /\ IF IsDone(watcher_info[i])
     THEN /\ watch_pc' = [watch_pc EXCEPT ![i] = "returned"]
          /\ watch_ret' = [watch_ret EXCEPT ![i] =
                             IF IsSuccess(watcher_info[i]) THEN None ELSE "failure"]
     ELSE /\ watch_pc' = [watch_pc EXCEPT ![i] = "wait"]
          /\ watch_ret' = watch_ret
  /\ UNCHANGED <<vars, dir_vars, retry_vars, exec_vars, brew_state, terminate_event, now, end_ts, watcher_info,
                 watch_error, cancels, info_dicts, watch_task_info, watch_task_lock,
                 reader_pc, copies>>

\* Lines 215-218: terminate_event.wait(timeout=3 * 60) returns.
Wait(i) ==
  /\ watch_pc[i] = "wait"
  /\ watch_error' = [watch_error EXCEPT ![i] = WaitError(i)]
  /\ watch_pc' = [watch_pc EXCEPT ![i] = IF WaitError(i) = None THEN "update" ELSE "cancel"]
  /\ UNCHANGED <<vars, dir_vars, retry_vars, exec_vars, brew_state, terminate_event, now, end_ts, watcher_info,
                 watch_ret, cancels, info_dicts, watch_task_info, watch_task_lock, reader_pc,
                 copies>>

\* Lines 219-221: subprocess.check_call(("brew", "cancel", str(task_id)))
\* returns when the command exits with 0 and raises CalledProcessError when
\* it does not.
Cancel(i) ==
  /\ watch_pc[i] = "cancel"
  /\ cancels' = [cancels EXCEPT ![i] = @ + 1]
  /\ \E rc \in {0, 1} :
       IF rc = 0
       THEN /\ brew_state' = [brew_state EXCEPT ![i] = IF @ = "OPEN" THEN "CANCELED" ELSE @]
            /\ watch_pc' = [watch_pc EXCEPT ![i] = "returned"]
            /\ watch_ret' = [watch_ret EXCEPT ![i] = watch_error[i]]
       ELSE /\ brew_state' = brew_state
            /\ watch_pc' = [watch_pc EXCEPT ![i] = "raised"]
            /\ watch_ret' = watch_ret
  /\ UNCHANGED <<vars, dir_vars, retry_vars, exec_vars, terminate_event, now, end_ts, watcher_info, watch_error,
                 info_dicts, watch_task_info, watch_task_lock, reader_pc, copies>>

\* Line 196: get_watch_task_info_copy enters `with watch_task_lock`.
ReaderAcquire ==
  /\ reader_pc = "idle"
  /\ Len(copies) < MaxCopies
  /\ watch_task_lock = None
  /\ watch_task_lock' = Reader
  /\ reader_pc' = "copy"
  /\ UNCHANGED <<vars, dir_vars, retry_vars, exec_vars, brew_state, terminate_event, now, watch_pc, end_ts,
                 watcher_info, watch_error, watch_ret, cancels, info_dicts, watch_task_info,
                 copies>>

\* Line 197: return dict(watch_task_info): a new dict that refers to the same
\* info dicts; the lock is released.
ReaderCopy ==
  /\ reader_pc = "copy"
  /\ copies' = Append(copies, [dict |-> watch_task_info, held |-> Deref(watch_task_info)])
  /\ watch_task_lock' = None
  /\ reader_pc' = "idle"
  /\ UNCHANGED <<vars, dir_vars, retry_vars, exec_vars, brew_state, terminate_event, now, watch_pc, end_ts,
                 watcher_info, watch_error, watch_ret, cancels, info_dicts, watch_task_info>>

\* Brew ends a task.
BrewEnds(i) ==
  /\ brew_state[i] = "OPEN"
  /\ \E state \in {"CLOSED", "FAILED"} : brew_state' = [brew_state EXCEPT ![i] = state]
  /\ UNCHANGED <<vars, dir_vars, retry_vars, exec_vars, terminate_event, now, watch_pc, end_ts, watcher_info,
                 watch_error, watch_ret, cancels, info_dicts, watch_task_info,
                 watch_task_lock, reader_pc, copies>>

\* The caller of watch_task sets terminate_event.
SetTerminateEvent ==
  /\ ~terminate_event
  /\ terminate_event' = TRUE
  /\ UNCHANGED <<vars, dir_vars, retry_vars, exec_vars, brew_state, now, watch_pc, end_ts, watcher_info,
                 watch_error, watch_ret, cancels, info_dicts, watch_task_info,
                 watch_task_lock, reader_pc, copies>>

\* Time passes.
Tick ==
  /\ \E later \in Instants : later > now /\ now' = later
  /\ UNCHANGED <<vars, dir_vars, retry_vars, exec_vars, brew_state, terminate_event, watch_pc, end_ts, watcher_info,
                 watch_error, watch_ret, cancels, info_dicts, watch_task_info,
                 watch_task_lock, reader_pc, copies>>

InitWatch == NoRun /\ DirLoaded /\ WatchLoaded /\ RetryIdle /\ AssertExecIdle

NextWatch ==
  \/ \E i \in TaskIds : StartWatch(i)
  \/ \E i \in TaskIds : WatcherUpdate(i)
  \/ \E i \in TaskIds : WatchAcquire(i)
  \/ \E i \in TaskIds : WatchStore(i)
  \/ \E i \in TaskIds : DoneCheck(i)
  \/ \E i \in TaskIds : Wait(i)
  \/ \E i \in TaskIds : Cancel(i)
  \/ ReaderAcquire
  \/ ReaderCopy
  \/ \E i \in TaskIds : BrewEnds(i)
  \/ SetTerminateEvent
  \/ Tick

SpecWatch == InitWatch /\ [][NextWatch]_all_vars

\* The dicts get_watch_task_info_copy has returned.
Returns == {copies[k] : k \in DOMAIN copies}

\* C29: a thread that writes watch_task_info or copies it holds
\* watch_task_lock; a dict that get_watch_task_info_copy returned gives every
\* task id in it the info one watcher.update() of that task's watcher got, and
\* gives it still, whatever the watch_task threads recorded since.
C29_CopyIsConsistentSnapshot ==
  /\ \A i \in TaskIds : watch_pc[i] = "store" => watch_task_lock = i
  /\ reader_pc = "copy" => watch_task_lock = Reader
  /\ \A c \in Returns :
       /\ Deref(c.dict) = c.held
       /\ \A i \in DOMAIN c.dict : c.held[i] \in {"OPEN", "CLOSED", "FAILED", "CANCELED"}

\* C29's case: a returned dict holds the infos of both tasks, and the module's
\* dict has a later info of one of them.
C29_Witness ==
  \E c \in Returns :
    /\ DOMAIN c.dict = TaskIds
    /\ \E i \in TaskIds :
         /\ watch_task_info[i] # c.dict[i]
         /\ Deref(watch_task_info)[i] # c.held[i]

\* watch_task ended with one of its two errors.
GaveUp(i) == watch_error[i] \in {"Interrupted", "Timeout building image"}

\* watch_task has returned or raised.
Ended(i) == watch_pc[i] \in {"returned", "raised"}

\* The info of the watcher's last update is the one watch_task_info holds.
Recorded(i) == i \in DOMAIN watch_task_info /\ Deref(watch_task_info)[i] = watcher_info[i]

\* C30 as stated: when watch_task has ended, `brew cancel` was issued for the
\* task if and only if watch_task returned 'Interrupted' or 'Timeout building
\* image'.
C30_CancelExactlyWhenErrorReturned ==
  \A i \in TaskIds :
    Ended(i) =>
      (cancels[i] > 0 <=> watch_ret[i] \in {"Interrupted", "Timeout building image"})

\* C30: `brew cancel` is issued, once, exactly when the loop of watch_task
\* ended with the error 'Interrupted' (terminate_event was set at a wait) or
\* 'Timeout building image' (the clock was past `end` at a wait); watch_task
\* then returns the error, or has raised because `brew cancel` failed.  When
\* the watcher reports the task done, watch_task returns None on success and
\* the failure otherwise, without a cancel, terminate_event set or not.  At
\* the done check and at such a return watch_task_info holds the info of the
\* watcher's last update.
C30_CancelOnInterruptOrTimeout ==
  \A i \in TaskIds :
    /\ cancels[i] = IF GaveUp(i) /\ Ended(i) THEN 1 ELSE 0
    /\ watch_error[i] = "Interrupted" => terminate_event
    /\ watch_error[i] = "Timeout building image" => now > end_ts[i]
    /\ (GaveUp(i) /\ watch_pc[i] = "returned") => watch_ret[i] = watch_error[i]
    /\ watch_pc[i] = "raised" => (GaveUp(i) /\ watch_ret[i] = "unset")
    /\ (~GaveUp(i) /\ watch_pc[i] = "returned")
         => /\ IsDone(watcher_info[i])
            /\ watch_ret[i] = IF IsSuccess(watcher_info[i]) THEN None ELSE "failure"
    /\ (watch_pc[i] = "check" \/ (~GaveUp(i) /\ watch_pc[i] = "returned")) => Recorded(i)
    /\ (watch_pc[i] = "wait" /\ watcher_info[i] # None) => ~IsDone(watcher_info[i])

\* C30's case: one watch_task returned 'Timeout building image' after its
\* cancel; the watcher of another one found its task closed and recorded it,
\* and terminate_event is set as that watch_task comes to its done check.
C30_Witness ==
  \E i, j \in TaskIds :
    /\ watch_pc[i] = "returned"
    /\ watch_ret[i] = "Timeout building image"
    /\ cancels[i] = 1
    /\ watch_pc[j] = "check"
    /\ IsSuccess(watcher_info[j])
    /\ Recorded(j)
    /\ terminate_event

(***************************************************************************)
(* common.py: retry.                                                       *)
(***************************************************************************)
\* Mutant of ShouldWait: wait_f is called after the last attempt too.
ShouldWait_AfterLast(attempt_c, attempts, given) == attempt_c < attempts /\ given

\* Line 178: c < n - 1 and wait_f is not None.
ShouldWait(attempt_c, attempts, given) == attempt_c < attempts - 1 /\ given

\* Lines 175-179: one pass of the loop up to the call of wait_f: f is called
\* and check_f judges its result.
RetryAttempt ==
  /\ retry_pc = "loop"
  /\ retry_c < retry_n
  /\ \E ret \in Results :
       /\ f_calls' = Append(f_calls, ret)
       /\ IF ret \in check_f
          THEN /\ retry_pc' = "returned"
               /\ retry_ret' = ret
               /\ retry_c' = retry_c
          ELSE /\ retry_ret' = retry_ret
               /\ IF ShouldWait(retry_c, retry_n, wait_f)
                  THEN retry_pc' = "wait" /\ retry_c' = retry_c
                  ELSE retry_pc' = "loop" /\ retry_c' = retry_c + 1
  /\ UNCHANGED <<vars, dir_vars, watch_vars, exec_vars, retry_n, check_f, wait_f, wait_calls>>

\* Line 179: wait_f(c), and the loop goes on.
RetryWait ==
  /\ retry_pc = "wait"
  /\ wait_calls' = Append(wait_calls, retry_c)
  /\ retry_c' = retry_c + 1
  /\ retry_pc' = "loop"
  /\ UNCHANGED <<vars, dir_vars, watch_vars, exec_vars, retry_n, check_f, wait_f, retry_ret,
                 f_calls>>

\* Line 180: the loop is over, RetryException is raised.
RetryGiveUp ==
  /\ retry_pc = "loop"
  /\ retry_c >= retry_n
  /\ retry_pc' = "raised"
  /\ UNCHANGED <<vars, dir_vars, watch_vars, exec_vars, retry_n, check_f, wait_f, retry_c,
                 retry_ret, f_calls, wait_calls>>

\* retry(n, f, check_f, wait_f) is called.
InitRetry ==
  /\ NoRun /\ DirLoaded /\ WatchLoaded /\ AssertExecIdle
  /\ retry_n \in 0..MaxN
  /\ check_f \in CheckFs
  /\ wait_f \in BOOLEAN
  /\ retry_c = 0
  /\ retry_pc = "loop"
  /\ retry_ret = "unset"
  /\ f_calls = << >>
  /\ wait_calls = << >>

NextRetry ==
  \/ RetryAttempt
  \/ RetryWait
  \/ RetryGiveUp

SpecRetry == InitRetry /\ [][NextRetry]_all_vars

\* What retry does in every case: at most n calls of f; each call of wait_f
\* follows a rejected attempt c < n - 1 and has c as its argument; retry
\* returns the first accepted result, the last call made; it raises after n
\* rejected results.
RetryCallsInOrder ==
  /\ Len(f_calls) <= retry_n
  /\ \A k \in DOMAIN f_calls : k < Len(f_calls) => f_calls[k] \notin check_f
  /\ Len(wait_calls) <= Len(f_calls)
  /\ \A k \in DOMAIN wait_calls :
       /\ wait_calls[k] = k - 1
       /\ wait_calls[k] < retry_n - 1
       /\ f_calls[k] \notin check_f
  /\ retry_pc = "returned"
       => /\ f_calls # << >>
          /\ retry_ret = f_calls[Len(f_calls)]
          /\ retry_ret \in check_f
          /\ Len(wait_calls) = IF wait_f THEN Len(f_calls) - 1 ELSE 0
  /\ retry_pc = "raised"
       => /\ Len(f_calls) = retry_n
          /\ \A k \in DOMAIN f_calls : f_calls[k] \notin check_f

\* C31 as stated: besides, when retry raises, wait_f was called n - 1 times.
C31_WaitsOneLessThanAttempts ==
  /\ RetryCallsInOrder
  /\ retry_pc = "raised" => Len(wait_calls) = retry_n - 1

\* C31: besides, when retry raises, wait_f was called n - 1 times if it was
\* given and n >= 1, and not at all otherwise.
C31_RetryStopsAtFirstAccepted ==
  /\ RetryCallsInOrder
  /\ retry_pc = "raised"
       => Len(wait_calls) = IF wait_f /\ retry_n >= 1 THEN retry_n - 1 ELSE 0

\* C31's case: three attempts were rejected, with a wait after the first and
\* after the second, and retry raised.
C31_Witness ==
  /\ retry_pc = "raised"
  /\ retry_n = 3
  /\ Len(f_calls) = 3
  /\ wait_calls = <<0, 1>>

(***************************************************************************)
(* common.py: assert_exec.                                                 *)
(***************************************************************************)
\* Line 74: rc is not 0.
Failed(status) == status # 0

\* Lines 83-90: one pass of the loop: after the first pass a sleep of 60
\* seconds; exec_cmd runs cmd and returns its exit status; 0 ends the loop.
ExecAttempt ==
  /\ exec_pc = "loop"
  /\ attempt < retries
  /\ sleeps' = IF attempt > 0 THEN sleeps + 1 ELSE sleeps
  /\ \E status \in ExitCodes :
       /\ exec_rc' = status
       /\ exec_rcs' = Append(exec_rcs, status)
       /\ IF status = 0
          THEN exec_pc' = "assert" /\ attempt' = attempt
          ELSE exec_pc' = "loop" /\ attempt' = attempt + 1
  /\ UNCHANGED <<vars, dir_vars, watch_vars, retry_vars, retries, remove_tmp_working_dir>>

\* Line 83: range(0, retries) is used up.
ExecLoopEnds ==
  /\ exec_pc = "loop"
  /\ attempt >= retries
  /\ exec_pc' = "assert"
  /\ UNCHANGED <<vars, dir_vars, watch_vars, retry_vars, retries, attempt, exec_rc,
                 remove_tmp_working_dir, exec_rcs, sleeps>>

\* Lines 92 and 73-77: assert_rc0(runtime, rc, ...).
AssertRc0 ==
  /\ exec_pc = "assert"
  /\ IF Failed(exec_rc)
     THEN remove_tmp_working_dir' = FALSE /\ exec_pc' = "raised"
     ELSE remove_tmp_working_dir' = remove_tmp_working_dir /\ exec_pc' = "returned"
  /\ UNCHANGED <<vars, dir_vars, watch_vars, retry_vars, retries, attempt, exec_rc, exec_rcs,
                 sleeps>>

\* assert_exec(runtime, cmd, retries) is called; line 81.
InitAssertExec ==
  /\ NoRun /\ DirLoaded /\ WatchLoaded /\ RetryIdle
  /\ retries \in 0..MaxRetries
  /\ attempt = 0
  /\ exec_rc = 0
  /\ exec_pc = "loop"
  /\ remove_tmp_working_dir \in BOOLEAN
  /\ exec_rcs = << >>
  /\ sleeps = 0

NextAssertExec ==
  \/ ExecAttempt
  \/ ExecLoopEnds
  \/ AssertRc0

SpecAssertExec == InitAssertExec /\ [][NextAssertExec]_all_vars

\* An invocation of cmd returned the exit status 0.
SomeInvocationSucceeded == \E k \in DOMAIN exec_rcs : exec_rcs[k] = 0

\* C32: assert_exec returns only if an invocation of cmd returned the exit
\* status 0, whatever retries is; cmd is run at most `retries` times and not
\* again after a status 0; without a status 0 assert_exec raises, and
\* runtime.remove_tmp_working_dir is False when it does.
C32_ReturnsOnlyAfterStatusZero ==
  /\ exec_pc = "returned" => SomeInvocationSucceeded
  /\ Len(exec_rcs) <= retries
  /\ \A k \in DOMAIN exec_rcs : k < Len(exec_rcs) => exec_rcs[k] # 0
  /\ (exec_pc \in {"returned", "raised"} /\ ~SomeInvocationSucceeded) => exec_pc = "raised"
  /\ exec_pc = "raised" => ~remove_tmp_working_dir

====
